---- MODULE Spec2Model ----
(***************************************************************************)
(* Conversation orchestration engine of plotari-ai: the two-tier session   *)
(* cache (CacheManagerService + ConversationManagerService over the        *)
(* Supabase conversation repository), the chat turn of ChatbotService and  *)
(* the intent classifier (IntentExtractorService over the OpenAI intent    *)
(* extraction service).                                                    *)
(*                                                                         *)
(* Time is counted in whole hours.  A message is identified by the number  *)
(* of the turn that appended it; message timestamps, which no code reads,  *)
(* are left out.                                                           *)
(***************************************************************************)
EXTENDS Integers, Sequences, FiniteSets, TLC

VARIABLES
    memory_cache,   \* CacheManagerService._memory_cache, a dict in insertion order
    db,             \* rows of table chatbot_conversations, row id = position
    now,            \* the wall clock, in hours
    turns,          \* number of chat turns started so far
    last_touched,   \* cache key -> hour of the last access through the cache (-1: never)
    last,           \* what the last operation was and what it returned
    message,        \* classifier: the message to classify
    context,        \* classifier: the context passed with it
    openai_service, \* classifier: the completion service and what its call does
    intent,         \* classifier: what extract_search_intent returned
    requests,       \* chat requests in flight, each served by a service of its own
    threads,        \* threads of one service inside get_conversation
    backend,        \* dispatcher: what the calls to the SearchBackend do
    completed       \* cache key -> the turns of the session that completed, in order

session_vars == <<memory_cache, db, now, turns, last_touched, last>>
classifier_vars == <<message, context, openai_service, intent>>
vars == <<memory_cache, db, now, turns, last_touched, last,
          message, context, openai_service, intent, requests, threads,
          backend, completed>>

-----------------------------------------------------------------------------
(* Bounds *)

MaxTurns == 2
MaxTicks == 2

(* Program constants *)

CacheMaxSize == 2
MemoryIdleHours == 1
ExpiresHours == 24

TickSteps == {MemoryIdleHours, ExpiresHours}

\* The (user_id, session_id) pairs of the clients, in the order in which they
\* first appear
PairSeq == <<(<<"u1", "s1">>), (<<"u1", "s2">>), (<<"u2", "s1">>)>>
Pairs == {PairSeq[j] : j \in 1..Len(PairSeq)}

NoId == 0
NoConv == [none |-> TRUE]

-----------------------------------------------------------------------------
(* Python dict with insertion order, as a sequence of [key, conv] entries *)

cache_key(user_id, session_id) == user_id \o ":" \o session_id

Keys(mem) == {mem[i].key : i \in 1..Len(mem)}

MemHas(mem, k) == k \in Keys(mem)

MemIndex(mem, k) == CHOOSE i \in 1..Len(mem) : mem[i].key = k

MemGet(mem, k) == mem[MemIndex(mem, k)].conv

MemDel(mem, k) == SelectSeq(mem, LAMBDA e : e.key # k)

MemSet(mem, k, c) ==
    IF MemHas(mem, k)
    THEN [mem EXCEPT ![MemIndex(mem, k)] = [key |-> k, conv |-> c]]
    ELSE Append(mem, [key |-> k, conv |-> c])

-----------------------------------------------------------------------------
(* SupabaseConversationRepository and ConversationCleanupService.  A call   *)
(* that fails (the store is unreachable) raises inside the repository,     *)
(* which logs and returns None / False / 0; the flag ok says which.        *)

ActiveRows(d, user_id, session_id) ==
    {i \in 1..Len(d) : /\ d[i].user_id = user_id
                       /\ d[i].session_id = session_id
                       /\ d[i].is_active}

\* The column conversation_data holds the conversation as JSON; of it the
\* model keeps the messages: user_id and session_id repeat the row's columns
\* and last_activity is overwritten when the conversation is loaded.  The
\* column last_activity of the row, which none of these operations reads,
\* is left out.
ConversationData(conv) == [messages |-> conv.messages]

\* repository.get_conversation followed by update_last_activity
\* (SupabaseConversationService.get_conversation); i is the row the store
\* returns first, 0 when it returns none.
\* A read that returns the record without its messages
supabase_get_conversation_drops_messages(d, i, t) ==
    IF i = 0
    THEN [conv |-> NoConv, db |-> d]
    ELSE [conv |-> [user_id |-> d[i].user_id, session_id |-> d[i].session_id,
                    last_activity |-> t, messages |-> <<>>, id |-> d[i].id],
          db |-> d]

supabase_get_conversation(d, i, t) ==
    IF i = 0
    THEN [conv |-> NoConv, db |-> d]
    ELSE [conv |-> [user_id |-> d[i].user_id, session_id |-> d[i].session_id,
                    last_activity |-> t, messages |-> d[i].data.messages, id |-> d[i].id],
          db |-> d]

create_conversation(d, user_id, session_id, conv, t) ==
    Append(d, [id |-> Len(d) + 1, user_id |-> user_id, session_id |-> session_id,
               data |-> ConversationData(conv), is_active |-> TRUE,
               expires_at |-> t + ExpiresHours])

\* An update that also rewrites the inactive rows of the pair
update_conversation_any_flag(d, user_id, session_id, conv, t) ==
    [i \in 1..Len(d) |->
        IF d[i].user_id = user_id /\ d[i].session_id = session_id
        THEN [d[i] EXCEPT !.data = ConversationData(conv)]
        ELSE d[i]]

update_conversation(d, user_id, session_id, conv, t) ==
    [i \in 1..Len(d) |->
        IF i \in ActiveRows(d, user_id, session_id)
        THEN [d[i] EXCEPT !.data = ConversationData(conv)]
        ELSE d[i]]

\* A delete that marks no row
delete_conversation_marks_none(d, user_id, session_id) == d

delete_conversation(d, user_id, session_id) ==
    [i \in 1..Len(d) |->
        IF i \in ActiveRows(d, user_id, session_id)
        THEN [d[i] EXCEPT !.is_active = FALSE]
        ELSE d[i]]

\* A pass that flips the flag of every expired row
cleanup_expired_conversations_flips(d, t) ==
    [i \in 1..Len(d) |->
        IF d[i].expires_at < t THEN [d[i] EXCEPT !.is_active = ~@] ELSE d[i]]

cleanup_expired_conversations(d, t) ==
    [i \in 1..Len(d) |->
        IF d[i].is_active /\ d[i].expires_at < t
        THEN [d[i] EXCEPT !.is_active = FALSE]
        ELSE d[i]]

-----------------------------------------------------------------------------
(* CacheManagerService *)

\* Eviction in insertion order: the entry that has been in the dict longest
OldestSession_inserted_first(mem) == mem[1].key

\* min(keys, key=last_activity): the first entry, in dict order, with the
\* least last_activity
OldestSession(mem) ==
    LET i == CHOOSE i \in 1..Len(mem) :
                 /\ \A j \in 1..Len(mem) : mem[i].conv.last_activity <= mem[j].conv.last_activity
                 /\ \A j \in 1..(i - 1) : mem[j].conv.last_activity > mem[i].conv.last_activity
    IN mem[i].key

CacheIsFull(mem) == Len(mem) >= CacheMaxSize

\* An insert that never evicts
add_to_memory_cache_unbounded(mem, k, conv) == MemSet(mem, k, conv)

add_to_memory_cache(mem, k, conv) ==
    IF CacheIsFull(mem)
    THEN MemSet(MemDel(mem, OldestSession(mem)), k, conv)
    ELSE MemSet(mem, k, conv)

\* An idle test that also takes the entry touched exactly one threshold ago
IsIdle_at_the_threshold(conv, t) == conv.last_activity <= t - MemoryIdleHours

IsIdle(conv, t) == conv.last_activity < t - MemoryIdleHours

\* An idle pass with the test inverted: it drops the entries in use
cleanup_memory_drops_active(mem, t) == SelectSeq(mem, LAMBDA e : IsIdle(e.conv, t))

\* cleanup_old_conversations: the durable pass, then the idle pass over memory
cleanup_memory(mem, t) == SelectSeq(mem, LAMBDA e : ~IsIdle(e.conv, t))

-----------------------------------------------------------------------------
(* ConversationManagerService *)

NewConversation(user_id, session_id, t) ==
    [user_id |-> user_id, session_id |-> session_id, last_activity |-> t,
     messages |-> <<>>, id |-> NoId]

\* get_conversation: memory hit refreshes last_activity; on a miss the
\* durable tier is read and a found conversation is put into memory.
\* readOk: the durable read succeeds; i: the row it returns (0: none).
get_conversation(mem, d, user_id, session_id, t, readOk, i) ==
    LET k == cache_key(user_id, session_id) IN
    IF MemHas(mem, k)
    THEN [found |-> TRUE, hit |-> TRUE, inserted |-> FALSE, full |-> FALSE,
          conv |-> [MemGet(mem, k) EXCEPT !.last_activity = t],
          mem |-> MemSet(mem, k, [MemGet(mem, k) EXCEPT !.last_activity = t]),
          db |-> d]
    ELSE IF readOk /\ i # 0
    THEN LET r == supabase_get_conversation(d, i, t)
             c == [r.conv EXCEPT !.last_activity = t]
         IN [found |-> TRUE, hit |-> FALSE, inserted |-> TRUE, full |-> CacheIsFull(mem),
             conv |-> c, mem |-> add_to_memory_cache(mem, k, c), db |-> r.db]
    ELSE [found |-> FALSE, hit |-> FALSE, inserted |-> FALSE, full |-> FALSE,
          conv |-> NoConv, mem |-> mem, db |-> d]

get_or_create_conversation(mem, d, user_id, session_id, t, readOk, i) ==
    LET g == get_conversation(mem, d, user_id, session_id, t, readOk, i)
        k == cache_key(user_id, session_id)
        c == NewConversation(user_id, session_id, t)
    IN IF g.found
       THEN g
       ELSE [found |-> TRUE, hit |-> FALSE, inserted |-> TRUE, full |-> CacheIsFull(g.mem),
             conv |-> c, mem |-> add_to_memory_cache(g.mem, k, c), db |-> g.db]

\* clear_conversation: True when the memory entry or an active row was removed
clear_conversation(mem, d, user_id, session_id, deleteOk) ==
    LET k == cache_key(user_id, session_id)
        inDb == deleteOk /\ ActiveRows(d, user_id, session_id) # {}
    IN [ret |-> MemHas(mem, k) \/ inDb,
        mem |-> MemDel(mem, k),
        db |-> IF deleteOk THEN delete_conversation(d, user_id, session_id) ELSE d]

-----------------------------------------------------------------------------
(* ChatbotService.process_message *)

UserMessage(n) == [role |-> "user", content |-> n]
AssistantMessage(n) == [role |-> "assistant", content |-> n]

\* The outcome of the store calls of one turn: the reads of get_conversation,
\* the update of save_conversation_to_cache, the create or second update of
\* process_message, the durable cleanup pass.
StoreOutcomes == [read : BOOLEAN, save : BOOLEAN, persist : BOOLEAN, cleanup : BOOLEAN]

AllOk(f) == f.read /\ f.save /\ f.persist /\ f.cleanup

\* The one element of a singleton set
Only(S) == CHOOSE x \in S : TRUE

\* The conversation process_message works on: get_conversation, then
\* get_or_create_conversation when that found nothing
LoadConversation(mem, d, user_id, session_id, t, readOk, i) ==
    Only({IF g.found THEN g
          ELSE get_or_create_conversation(g.mem, g.db, user_id, session_id, t, readOk, i) :
             g \in {get_conversation(mem, d, user_id, session_id, t, readOk, i)}})

\* cleanup_old_conversations at the end of the turn, and the turn's result: the
\* load, the final conversation, memory and rows
CleanupTurn(g, c2, d2, k, t, f) ==
    [load |-> g, conv |-> c2,
     mem |-> cleanup_memory(MemSet(g.mem, k, c2), t),
     db |-> IF f.cleanup THEN cleanup_expired_conversations(d2, t) ELSE d2]

\* The create of a conversation that has no id, else the second update
PersistTurn(g, c1, d1, user_id, session_id, t, f) ==
    Only({CleanupTurn(g, IF c1.id = NoId /\ f.persist THEN [c1 EXCEPT !.id = Len(d2)] ELSE c1,
                      d2, cache_key(user_id, session_id), t, f) :
             d2 \in {IF ~f.persist THEN d1
                     ELSE IF c1.id = NoId
                          THEN create_conversation(d1, user_id, session_id, c1, t)
                          ELSE update_conversation(d1, user_id, session_id, c1, t)}})

\* The appends of the user message and of the reply, then
\* save_conversation_to_cache
SaveTurn(g, user_id, session_id, t, n, f) ==
    Only({PersistTurn(g, c1,
                      IF f.save THEN update_conversation(g.db, user_id, session_id, c1, t)
                      ELSE g.db,
                      user_id, session_id, t, f) :
             c1 \in {[g.conv EXCEPT
                        !.messages = Append(Append(@, UserMessage(n)), AssistantMessage(n))]}})

\* The turn from the load of the conversation to the response
process_message(mem, d, user_id, session_id, t, n, f, i) ==
    Only({SaveTurn(g, user_id, session_id, t, n, f) :
             g \in {LoadConversation(mem, d, user_id, session_id, t, f.read, i)}})

-----------------------------------------------------------------------------
(* The state machine of the session cache, one operation at a time *)

\* last_touched follows the entries of the memory cache: set by an access,
\* dropped with the entry
Touch(lt, k, t) == [lt EXCEPT ![k] = t]

Resident(lt, mem) == [k \in DOMAIN lt |-> IF MemHas(mem, k) THEN lt[k] ELSE -1]

CacheKeys == {cache_key(p[1], p[2]) : p \in Pairs}

\* The dict position of the entry that an insert into the full cache removed,
\* 0 when the operation removed none
Evicted(mem, g) ==
    IF g.inserted /\ g.full THEN MemIndex(mem, OldestSession(mem)) ELSE 0

Other == [op |-> "other"]

\* The session exists in a tier
Exists(mem, d, p) ==
    MemHas(mem, cache_key(p[1], p[2])) \/ ActiveRows(d, p[1], p[2]) # {}

\* A pair is known once a row, a memory entry or the last operation names it.
\* Pairs that are not known cannot be told apart, so the next operation on an
\* unknown pair is taken to be on the first of them.
Known(p) ==
    \/ \E i \in 1..Len(db) : db[i].user_id = p[1] /\ db[i].session_id = p[2]
    \/ MemHas(memory_cache, cache_key(p[1], p[2]))
    \/ last.op # "other" /\ last.user_id = p[1] /\ last.session_id = p[2]

Usable(p) ==
    p \in {PairSeq[j] : j \in {h \in 1..Len(PairSeq) :
                                 Known(PairSeq[h]) \/ \A g \in 1..(h - 1) : Known(PairSeq[g])}}

\* What the durable reads of get_conversation do: none is made on a memory
\* hit; a read fails (readOk false) or returns one of the active rows of the
\* pair, whichever the store lists first, or none when there is none.  The
\* two reads of a turn (get_conversation, then the one inside
\* get_or_create_conversation) are taken to end alike: a second read that
\* succeeds after a failed first one gives what one successful read gives.
ReadChoice(p, readOk, i) ==
    IF MemHas(memory_cache, cache_key(p[1], p[2]))
    THEN readOk /\ i = 0
    ELSE IF readOk
         THEN \/ i \in ActiveRows(db, p[1], p[2])
              \/ i = 0 /\ ActiveRows(db, p[1], p[2]) = {}
         ELSE i = 0

\* The classifier and the concurrent requests are not part of this machine
SessionOnly ==
    UNCHANGED <<message, context, openai_service, intent, requests, threads,
                backend, completed>>

NotUsed == [none |-> TRUE]

Init ==
    /\ memory_cache = <<>>
    /\ db = <<>>
    /\ now = 0
    /\ turns = 0
    /\ last_touched = [k \in CacheKeys |-> -1]
    /\ last = Other
    /\ message = NotUsed
    /\ context = NotUsed
    /\ openai_service = NotUsed
    /\ intent = NotUsed
    /\ requests = NotUsed
    /\ threads = NotUsed
    /\ backend = NotUsed
    /\ completed = NotUsed

\* One completed chat turn
ProcessMessage(p, f, i) ==
    /\ turns < MaxTurns
    /\ Usable(p)
    /\ ReadChoice(p, f.read, i)
    /\ LET r == process_message(memory_cache, db, p[1], p[2], now, turns + 1, f, i)
       IN /\ memory_cache' = r.mem
          /\ db' = r.db
          /\ last' = [op |-> "turn", user_id |-> p[1], session_id |-> p[2],
                      ok |-> AllOk(f), evicted |-> Evicted(memory_cache, r.load)]
    /\ turns' = turns + 1
    /\ last_touched' = Resident(Touch(last_touched, cache_key(p[1], p[2]), now), memory_cache')
    /\ UNCHANGED now
    /\ SessionOnly

\* A chat turn that raises after the user message was appended: the handler of
\* process_message returns the error response, nothing is saved or cleaned
ProcessMessageError(p, readOk, i) ==
    /\ turns < MaxTurns
    /\ Usable(p)
    /\ ReadChoice(p, readOk, i)
    /\ LET g == LoadConversation(memory_cache, db, p[1], p[2], now, readOk, i)
           c == [g.conv EXCEPT !.messages = Append(@, UserMessage(turns + 1))]
       IN /\ memory_cache' = MemSet(g.mem, cache_key(p[1], p[2]), c)
          /\ db' = g.db
          /\ last' = [op |-> "error", user_id |-> p[1], session_id |-> p[2],
                      evicted |-> Evicted(memory_cache, g)]
    /\ turns' = turns + 1
    /\ last_touched' = Resident(Touch(last_touched, cache_key(p[1], p[2]), now), memory_cache')
    /\ UNCHANGED now
    /\ SessionOnly

\* get_conversation_history: a get through the cache
GetHistory(p, readOk, i) ==
    /\ Usable(p)
    /\ ReadChoice(p, readOk, i)
    /\ LET g == get_conversation(memory_cache, db, p[1], p[2], now, readOk, i)
       IN /\ memory_cache' = g.mem
          /\ db' = g.db
          /\ last' = IF Evicted(memory_cache, g) = 0
                      THEN Other
                      ELSE [op |-> "get", user_id |-> p[1], session_id |-> p[2],
                            evicted |-> Evicted(memory_cache, g)]
          /\ last_touched' = IF g.found
                             THEN Resident(Touch(last_touched, cache_key(p[1], p[2]), now), g.mem)
                             ELSE last_touched
    /\ UNCHANGED <<now, turns>>
    /\ SessionOnly

\* get_or_create_conversation called on its own
GetOrCreate(p, readOk, i) ==
    /\ Usable(p)
    /\ ReadChoice(p, readOk, i)
    /\ LET g == get_or_create_conversation(memory_cache, db, p[1], p[2], now, readOk, i)
       IN /\ memory_cache' = g.mem
          /\ db' = g.db
          /\ last' = [op |-> "get", user_id |-> p[1], session_id |-> p[2],
                      evicted |-> Evicted(memory_cache, g)]
          /\ last_touched' = Resident(Touch(last_touched, cache_key(p[1], p[2]), now), g.mem)
    /\ UNCHANGED <<now, turns>>
    /\ SessionOnly

ClearConversation(p, deleteOk) ==
    /\ Usable(p)
    /\ LET r == clear_conversation(memory_cache, db, p[1], p[2], deleteOk)
           again == last.op = "clear" /\ last.user_id = p[1] /\ last.session_id = p[2]
       IN /\ memory_cache' = r.mem
          /\ db' = r.db
          /\ last' = [op |-> "clear", user_id |-> p[1], session_id |-> p[2],
                      ret |-> r.ret, existed |-> Exists(memory_cache, db, p),
                      ok |-> deleteOk, again |-> again,
                      prev_ret |-> again /\ last.ret,
                      prev_existed |-> again /\ last.existed,
                      prev_ok |-> again /\ last.ok]
    /\ last_touched' = Resident(last_touched, memory_cache')
    /\ UNCHANGED <<now, turns>>
    /\ SessionOnly

\* cleanup_old_conversations run on its own
Maintenance(cleanupOk) ==
    /\ memory_cache' = cleanup_memory(memory_cache, now)
    /\ db' = IF cleanupOk THEN cleanup_expired_conversations(db, now) ELSE db
    /\ last' = Other
    /\ last_touched' = Resident(last_touched, memory_cache')
    /\ UNCHANGED <<now, turns>>
    /\ SessionOnly

\* api/dependencies.get_chatbot_service builds a ChatbotService, and with it
\* an empty memory cache, for the request it serves
NewService ==
    /\ memory_cache # <<>>
    /\ memory_cache' = <<>>
    /\ last' = Other
    /\ last_touched' = Resident(last_touched, memory_cache')
    /\ UNCHANGED <<db, now, turns>>
    /\ SessionOnly

\* The clock advances by an idle threshold or by a record lifetime at a time
TicksSoFar == (now \div ExpiresHours) + (now % ExpiresHours)

Tick(dt) ==
    /\ TicksSoFar < MaxTicks
    /\ now' = now + dt
    /\ last' = Other
    /\ UNCHANGED <<memory_cache, db, turns, last_touched>>
    /\ SessionOnly

\* The pairs that take chat turns
TurnPairs == {PairSeq[1], PairSeq[2]}

Next ==
    \/ \E p \in TurnPairs, f \in StoreOutcomes, i \in 0..Len(db) : ProcessMessage(p, f, i)
    \/ \E p \in TurnPairs, readOk \in BOOLEAN, i \in 0..Len(db) : ProcessMessageError(p, readOk, i)
    \/ \E p \in TurnPairs, readOk \in BOOLEAN, i \in 0..Len(db) : GetHistory(p, readOk, i)
    \/ \E p \in TurnPairs, deleteOk \in BOOLEAN : ClearConversation(p, deleteOk)
    \/ \E cleanupOk \in BOOLEAN : Maintenance(cleanupOk)
    \/ NewService
    \/ \E dt \in TickSteps : Tick(dt)

Spec == Init /\ [][Next]_vars

-----------------------------------------------------------------------------
(* The cache operations on their own: get, getOrCreate, clear, maintenance. *)
(* They start where two completed turns, each served by a service of its   *)
(* own, have left the durable tier: one active row for each of the first   *)
(* two pairs, and the memory of the next service empty.                    *)

StoreUp == [read |-> TRUE, save |-> TRUE, persist |-> TRUE, cleanup |-> TRUE]

StoredRows ==
    Only({process_message(<<>>, d1, PairSeq[2][1], PairSeq[2][2], 0, 2, StoreUp, 0).db :
             d1 \in {process_message(<<>>, <<>>, PairSeq[1][1], PairSeq[1][2], 0, 1,
                                     StoreUp, 0).db}})

InitCache ==
    /\ memory_cache = <<>>
    /\ db = StoredRows
    /\ now = 0
    /\ turns = Len(StoredRows)
    /\ last_touched = [k \in CacheKeys |-> -1]
    /\ last = Other
    /\ message = NotUsed
    /\ context = NotUsed
    /\ openai_service = NotUsed
    /\ intent = NotUsed
    /\ requests = NotUsed
    /\ threads = NotUsed
    /\ backend = NotUsed
    /\ completed = NotUsed

\* Here the clock advances by the idle threshold only
NextCache ==
    \/ \E p \in Pairs, readOk \in BOOLEAN, i \in 0..Len(db) : GetHistory(p, readOk, i)
    \/ \E p \in Pairs, readOk \in BOOLEAN, i \in 0..Len(db) : GetOrCreate(p, readOk, i)
    \/ \E p \in Pairs, deleteOk \in BOOLEAN : ClearConversation(p, deleteOk)
    \/ \E cleanupOk \in BOOLEAN : Maintenance(cleanupOk)
    \/ NewService
    \/ Tick(MemoryIdleHours)

SpecCache == InitCache /\ [][NextCache]_vars

-----------------------------------------------------------------------------
(* Properties of the chat turn and of the session cache *)

\* The message lists a turn on pair p can find the session to hold: the
\* resident conversation's, else that of an active row, else the empty list
PriorLists(mem, d, p) ==
    IF MemHas(mem, cache_key(p[1], p[2]))
    THEN {MemGet(mem, cache_key(p[1], p[2])).messages}
    ELSE IF ActiveRows(d, p[1], p[2]) # {}
         THEN {d[i].data.messages : i \in ActiveRows(d, p[1], p[2])}
         ELSE {<<>>}

\* C1: each completed turn, the turns being processed one at a time, extends
\* the message list of its session by exactly the turn's user message followed
\* by its assistant reply; the earlier messages keep content and position and
\* none is dropped.
C1_TurnExtendsMessages ==
    [][\A p \in TurnPairs :
          (/\ turns' = turns + 1
           /\ last'.op = "turn" /\ last'.user_id = p[1] /\ last'.session_id = p[2])
          => \E b \in PriorLists(memory_cache, db, p) :
                 MemGet(memory_cache', cache_key(p[1], p[2])).messages
                     = b \o <<UserMessage(turns'), AssistantMessage(turns')>>]_vars

\* C2: after every completed turn during which the store was reachable, the
\* durable tier holds an active record for the turn's pair whose message list
\* equals the volatile session's, whatever the age of the session and however
\* many maintenance passes ran before.
C2_WriteThrough ==
    (last.op = "turn" /\ last.ok)
    => \E i \in ActiveRows(db, last.user_id, last.session_id) :
           db[i].data.messages
               = MemGet(memory_cache, cache_key(last.user_id, last.session_id)).messages

\* C3: after any sequence of get, getOrCreate, clear and maintenance
\* operations run one at a time, the volatile tier holds at most N entries.
C3_AtMostCapacity == Len(memory_cache) <= CacheMaxSize

\* An insert into the full cache has just evicted an entry and the cache is
\* full again
C3_InsertedIntoFull ==
    last.op = "get" /\ last.evicted # 0 /\ Len(memory_cache) = CacheMaxSize

\* C4: when getOrCreate or a read-through load inserts a session into a
\* volatile tier that holds N entries, exactly one entry is evicted, it is one
\* with the oldest last_touched, and the other entries stay as they are; so an
\* entry accessed more recently than another resident one is never the victim.
C4_EvictsOldest ==
    [][\A k \in Keys(memory_cache') \ Keys(memory_cache) :
          Len(memory_cache) >= CacheMaxSize
          => \E v \in Keys(memory_cache) :
                 /\ Keys(memory_cache') = (Keys(memory_cache) \ {v}) \cup {k}
                 /\ \A w \in Keys(memory_cache) : last_touched[v] <= last_touched[w]
                 /\ \A w \in Keys(memory_cache) \ {v} :
                        MemGet(memory_cache', w) = MemGet(memory_cache, w)]_vars

\* The evicted entry was the second of the dict: the first, inserted earlier,
\* had been accessed after it
C4_SparedTheRefreshed == last.op = "get" /\ last.evicted = 2

-----------------------------------------------------------------------------
(* Python values of the classifier.  A str is a TLA+ string, on which TLC   *)
(* evaluates Len, SubSeq, Head, Tail and \o; a dict is a function from its  *)
(* keys; a list is a sequence.                                              *)

\* Python's None, where a text or nothing is expected
None == "<None>"

\* What an operation gives when it raises
Raised == [raised |-> TRUE]

EmptyDict == [k \in {} |-> None]

DictSet(d, key, value) ==
    [k \in DOMAIN d \cup {key} |-> IF k = key THEN value ELSE d[k]]

SetMin(S) == CHOOSE x \in S : \A y \in S : x <= y
SetMax(S) == CHOOSE x \in S : \A y \in S : y <= x

\* s[i:i+1], the empty string outside s
CharAt(s, i) == IF i \in 1..Len(s) THEN SubSeq(s, i, i) ELSE ""

\* k in s
Contains(s, k) ==
    \E i \in 1..(Len(s) - Len(k) + 1) : SubSeq(s, i, i + Len(k) - 1) = k

\* any(k in s for k in keywords)
ContainsAny(s, keywords) == \E k \in keywords : Contains(s, k)

Whitespace == {" ", "\t", "\n", "\r"}

\* s.strip()
strip(s) ==
    LET kept == {i \in 1..Len(s) : CharAt(s, i) \notin Whitespace}
    IN IF kept = {} THEN "" ELSE SubSeq(s, SetMin(kept), SetMax(kept))

UpperCase == "ABCDEFGHIJKLMNOPQRSTUVWXYZ"
LowerCase == "abcdefghijklmnopqrstuvwxyz"

lower_char(c) ==
    IF Contains(UpperCase, c)
    THEN CharAt(LowerCase, CHOOSE i \in 1..Len(UpperCase) : CharAt(UpperCase, i) = c)
    ELSE c

\* s.lower(), for the letters A to Z
RECURSIVE lower(_)
lower(s) == IF s = "" THEN "" ELSE lower_char(Head(s)) \o lower(Tail(s))

Digits == "0123456789"

IsDigit(c) == Len(c) = 1 /\ Contains(Digits, c)

\* The characters that the pattern \w does not match, among those of ASCII
NonWordChars == " \t\n\r.,;:!?()[]{}<>'-+*/=@#$%&|~^"

IsWordChar(c) == Len(c) = 1 /\ ~Contains(NonWordChars, c)

\* int(s) of a run of digits
RECURSIVE to_int(_)
to_int(s) ==
    IF s = "" THEN 0
    ELSE 10 * to_int(SubSeq(s, 1, Len(s) - 1))
         + (CHOOSE i \in 1..Len(Digits) : CharAt(Digits, i) = CharAt(s, Len(s))) - 1

\* The maximal runs of digits of s, as pairs of first and last position
DigitRuns(s) ==
    {r \in (1..Len(s)) \X (1..Len(s)) :
        /\ r[1] <= r[2]
        /\ \A i \in r[1]..r[2] : IsDigit(CharAt(s, i))
        /\ r[1] = 1 \/ ~IsDigit(CharAt(s, r[1] - 1))
        /\ r[2] = Len(s) \/ ~IsDigit(CharAt(s, r[2] + 1))}

\* The matches of \b(\d{n,})\b in s: the runs of n digits or more with a word
\* boundary at both ends
BoundedRuns(s, n) ==
    {r \in DigitRuns(s) :
        /\ r[2] - r[1] + 1 >= n
        /\ r[1] = 1 \/ ~IsWordChar(CharAt(s, r[1] - 1))
        /\ r[2] = Len(s) \/ ~IsWordChar(CharAt(s, r[2] + 1))}

\* A set of runs as the list of their texts, in the order of s
RECURSIVE RunTexts(_, _)
RunTexts(s, runs) ==
    IF runs = {} THEN <<>>
    ELSE LET r == CHOOSE x \in runs : \A y \in runs : x[1] <= y[1]
         IN <<SubSeq(s, r[1], r[2])>> \o RunTexts(s, runs \ {r})

\* re.findall(r'\b(\d{8,})\b', s)
findall_ids(s) == RunTexts(s, BoundedRuns(s, 8))

\* re.search(r'\b(\d+)\b', s): group 1 of the first match, None without one
search_number(s) ==
    IF BoundedRuns(s, 1) = {} THEN None ELSE Head(RunTexts(s, BoundedRuns(s, 1)))

\* The first position after position j of s that holds no whitespace
SkipSpace(s, j) ==
    SetMin({i \in (j + 1)..(Len(s) + 1) :
               i = Len(s) + 1 \/ CharAt(s, i) \notin Whitespace})

\* re.search(r'(\d+)\s*(?:metros?|meters?|m)', s): group 1 of the first match.
\* Every alternative begins with m, so a match is a run of digits, then
\* whitespace, then m.
search_radius(s) ==
    LET runs == {r \in DigitRuns(s) : CharAt(s, SkipSpace(s, r[2])) = "m"}
    IN IF runs = {} THEN None ELSE Head(RunTexts(s, runs))

-----------------------------------------------------------------------------
(* The context argument: None, a dict, or (the annotation is not enforced)  *)
(* a value that is no mapping, such as a str                                *)

NoContext == [py |-> "None"]
DictContext(items) == [py |-> "dict", items |-> items]
TextContext == [py |-> "str"]

\* bool(context)
IsTrue(context_) ==
    context_.py = "str" \/ (context_.py = "dict" /\ DOMAIN context_.items # {})

\* context.get(key), for a dict
context_get(context_, key) ==
    IF key \in DOMAIN context_.items THEN context_.items[key] ELSE None

\* not value, for a text or None
Falsy(value) == value = None \/ value = ""

-----------------------------------------------------------------------------
(* OpenAIIntentExtractionService.  The reply of the completion call is one  *)
(* of: an error, a timeout, a content that is no JSON, a JSON value.        *)

openai_get_default_search_intent(user_message) ==
    [type |-> "property_search", query |-> user_message, filters |-> EmptyDict]

openai_valid_types == {"property_search", "property_detail", "poi_search", "property_compare"}

\* Filters without the values None, "" and "null".  JSON null is None.
cleaned_filters(filters) ==
    [k \in {x \in DOMAIN filters : filters[x] \notin {None, "", "null"}} |-> filters[k]]

\* A JSON value that is no object makes the first assignment raise, which the
\* method catches.  A filters entry that is no object is replaced like a
\* missing one, so the replies of the model leave filters out or hold a dict.
_validate_and_complete_intent(value, original_message) ==
    IF value.py # "dict"
    THEN openai_get_default_search_intent(original_message)
    ELSE LET i0 == value.items
             i1 == IF "type" \notin DOMAIN i0 THEN DictSet(i0, "type", "property_search") ELSE i0
             i2 == IF "query" \notin DOMAIN i1 \/ Falsy(i1.query)
                   THEN DictSet(i1, "query", original_message) ELSE i1
             i3 == IF "filters" \notin DOMAIN i2 THEN DictSet(i2, "filters", EmptyDict) ELSE i2
             i4 == IF i3.type \notin openai_valid_types
                   THEN [i3 EXCEPT !.type = "property_search"] ELSE i3
         IN [i4 EXCEPT !.filters = cleaned_filters(@)]

\* The completion call is made for a message that is not blank
CallsCompletion(user_message) == user_message # "" /\ strip(user_message) # ""

openai_extract_search_intent(reply, user_message, context_) ==
    IF ~CallsCompletion(user_message)
    THEN openai_get_default_search_intent("")
    ELSE IF reply.kind \in {"error", "timeout", "unparseable"}
    THEN openai_get_default_search_intent(user_message)
    ELSE _validate_and_complete_intent(reply.value, user_message)

-----------------------------------------------------------------------------
(* IntentExtractorService *)

greeting_keywords ==
    {"hello", "hi", "hey", "hola", "buenos días", "good morning", "good afternoon",
     "good evening", "buenas tardes", "buenas noches"}
question_keywords ==
    {"how are you", "cómo estás", "what can you do", "qué puedes hacer", "help", "ayuda",
     "what do you do"}
thanks_keywords == {"thank", "thanks", "gracias", "appreciate"}
goodbye_keywords == {"bye", "goodbye", "see you", "adiós", "hasta luego", "chao"}
property_keywords ==
    {"house", "home", "property", "condo", "apartment", "bedroom", "bathroom", "price",
     "buy", "rent", "casa", "propiedad", "apartamento", "habitación"}
compare_keywords == {"comparar", "compare", "vs", "versus"}
detail_keywords == {"detalle", "details", "info", "información"}
poi_keywords == {"cerca", "near", "poi", "restaurantes", "escuelas", "schools"}

valid_types ==
    {"property_search", "property_detail", "poi_search", "property_compare",
     "general_conversation"}

\* A default that carries the filters of the basic search
_get_default_search_intent_basic(message_) ==
    [type |-> "property_search", query |-> message_,
     filters |-> [city |-> None, property_id |-> None]]

_get_default_search_intent(message_) ==
    [type |-> "property_search", query |-> message_, filters |-> EmptyDict]

\* Every intent that reaches the check is a dict, and a filters entry, where
\* there is one, is a dict
_validate_search_intent(intent_) ==
    /\ {"type", "query", "filters"} \subseteq DOMAIN intent_
    /\ intent_.type \in valid_types
    /\ ~Falsy(intent_.query)
    /\ strip(intent_.query) # ""

_extract_basic_search_intent(message_, context_) ==
    IF ~IsTrue(context_)
    THEN [type |-> "property_search", query |-> message_,
          filters |-> [city |-> None, property_id |-> None]]
    ELSE IF context_.py # "dict" THEN Raised
    ELSE [type |-> "property_search", query |-> message_,
          filters |-> [city |-> context_get(context_, "city"),
                       property_id |-> context_get(context_, "propertyId")]]

\* context.get("propertyId") if context else None
context_property_id(context_) ==
    IF IsTrue(context_) THEN context_get(context_, "propertyId") ELSE None

_extract_detail_intent(message_, context_) ==
    IF IsTrue(context_) /\ context_.py # "dict" THEN Raised
    ELSE LET from_context == context_property_id(context_)
             property_id == IF Falsy(from_context) /\ search_number(message_) # None
                            THEN search_number(message_)
                            ELSE from_context
         IN [type |-> "property_detail", property_id |-> property_id, query |-> message_]

poi_category(message_lower) ==
    IF ContainsAny(message_lower, {"escuela", "school", "colegio"}) THEN "school"
    ELSE IF ContainsAny(message_lower, {"restaurante", "restaurant", "comida"}) THEN "restaurant"
    ELSE IF ContainsAny(message_lower, {"hospital", "clínica", "médico"}) THEN "healthcare"
    ELSE IF ContainsAny(message_lower, {"tienda", "shop", "comercio"}) THEN "shopping"
    ELSE None

DefaultRadius == 1500

poi_radius(message_lower) ==
    IF search_radius(message_lower) = None
    THEN DefaultRadius
    ELSE to_int(search_radius(message_lower))

_extract_poi_intent(message_, context_) ==
    IF IsTrue(context_) /\ context_.py # "dict" THEN Raised
    ELSE LET property_id == context_property_id(context_)
             category == poi_category(lower(message_))
             radius == poi_radius(lower(message_))
         IN IF Falsy(property_id)
            THEN [type |-> "property_search",
                  query |-> IF category # None THEN "home near " \o category ELSE message_,
                  filters |-> [poi_category |-> category, poi_radius |-> radius],
                  search_mode |-> "near_pois"]
            ELSE [type |-> "poi_search", property_id |-> property_id,
                  category |-> category, radius |-> radius, query |-> message_]

InList(x, list) == \E i \in 1..Len(list) : list[i] = x

MaxCompareIds == 5

_extract_compare_intent(message_, context_) ==
    IF IsTrue(context_) /\ context_.py # "dict" THEN Raised
    ELSE LET found == findall_ids(message_)
             property_ids ==
                 IF ~Falsy(context_property_id(context_))
                    /\ ~InList(context_property_id(context_), found)
                 THEN <<context_property_id(context_)>> \o found
                 ELSE found
         IN [type |-> "property_compare",
             property_ids |-> SubSeq(property_ids, 1,
                                     IF Len(property_ids) < MaxCompareIds
                                     THEN Len(property_ids) ELSE MaxCompareIds),
             query |-> message_]

\* The rules with the comparison keywords tried before the small talk
classify_by_rules_compare_first(message_, context_) ==
    LET message_lower == strip(lower(message_))
        is_general_conversation ==
            ContainsAny(message_lower, greeting_keywords \cup question_keywords
                                           \cup thanks_keywords \cup goodbye_keywords)
        has_property_terms == ContainsAny(message_lower, property_keywords)
    IN IF ContainsAny(message_lower, compare_keywords)
       THEN _extract_compare_intent(message_, context_)
       ELSE IF is_general_conversation /\ ~has_property_terms
       THEN [type |-> "general_conversation", query |-> message_, filters |-> EmptyDict]
       ELSE IF ContainsAny(message_lower, detail_keywords)
       THEN _extract_detail_intent(message_, context_)
       ELSE IF ContainsAny(message_lower, poi_keywords)
       THEN _extract_poi_intent(message_, context_)
       ELSE _extract_basic_search_intent(message_, context_)

\* The body of the try of _extract_search_intent_fallback
classify_by_rules(message_, context_) ==
    LET message_lower == strip(lower(message_))
        is_general_conversation ==
            \/ ContainsAny(message_lower, greeting_keywords)
            \/ ContainsAny(message_lower, question_keywords)
            \/ ContainsAny(message_lower, thanks_keywords)
            \/ ContainsAny(message_lower, goodbye_keywords)
        has_property_terms == ContainsAny(message_lower, property_keywords)
    IN IF is_general_conversation /\ ~has_property_terms
       THEN [type |-> "general_conversation", query |-> message_, filters |-> EmptyDict]
       ELSE IF ContainsAny(message_lower, compare_keywords)
       THEN _extract_compare_intent(message_, context_)
       ELSE IF ContainsAny(message_lower, detail_keywords)
       THEN _extract_detail_intent(message_, context_)
       ELSE IF ContainsAny(message_lower, poi_keywords)
       THEN _extract_poi_intent(message_, context_)
       ELSE _extract_basic_search_intent(message_, context_)

_extract_search_intent_fallback(message_, context_) ==
    IF classify_by_rules(message_, context_) = Raised
    THEN _get_default_search_intent(message_)
    ELSE classify_by_rules(message_, context_)

\* service: whether an OpenAIService is configured and what its completion
\* call does.  The OpenAI service catches what its call raises, so the inner
\* handler of extract_search_intent has nothing to catch.
extract_search_intent(service, message_, context_) ==
    LET candidate == openai_extract_search_intent(service.reply, message_, context_)
        returned == IF service.configured /\ _validate_search_intent(candidate)
                    THEN candidate
                    ELSE _extract_search_intent_fallback(message_, context_)
    IN IF returned = Raised THEN _get_default_search_intent(message_) ELSE returned

-----------------------------------------------------------------------------
(* The classifier applied once to a message, a context and a completion     *)
(* service drawn from small sets                                            *)

Messages ==
    {"", " ", "hello", "Compare 18562768 and 18562769", "details 42",
     "schools near 500 m", "2 bed condo", "compare 18562768 vs 18562768",
     "vs 11111111 22222222 33333333 44444444 55555555",
     "HI compare details near", "Hello compare house details near 18562768",
     "details near schools 42"}

Contexts ==
    {NoContext, DictContext(EmptyDict), DictContext([propertyId |-> "18562768"]),
     DictContext([city |-> "Miami"]), TextContext}

JsonValues ==
    {[py |-> "list"],
     [py |-> "dict",
      items |-> [type |-> "property_detail", query |-> "property 42",
                 filters |-> [property_id |-> "42", city |-> None]]],
     [py |-> "dict", items |-> [query |-> ""]],
     [py |-> "dict", items |-> [type |-> "smalltalk", query |-> " ", filters |-> EmptyDict]]}

Replies ==
    {[kind |-> "error"], [kind |-> "timeout"], [kind |-> "unparseable"]}
        \cup {[kind |-> "json", value |-> v] : v \in JsonValues}

Services ==
    {[configured |-> FALSE]} \cup {[configured |-> TRUE, reply |-> r] : r \in Replies}

InitClassify ==
    /\ message \in Messages
    /\ context \in Contexts
    /\ openai_service \in Services
    /\ intent = NotUsed
    /\ memory_cache = <<>>
    /\ db = <<>>
    /\ now = 0
    /\ turns = 0
    /\ last_touched = [k \in CacheKeys |-> -1]
    /\ last = Other
    /\ requests = NotUsed
    /\ threads = NotUsed
    /\ backend = NotUsed
    /\ completed = NotUsed

Classify ==
    /\ intent = NotUsed
    /\ intent' = extract_search_intent(openai_service, message, context)
    /\ UNCHANGED <<message, context, openai_service>>
    /\ UNCHANGED <<memory_cache, db, now, turns, last_touched, last, requests, threads,
                   backend, completed>>

NextClassify == Classify

SpecClassify == InitClassify /\ [][NextClassify]_vars

Classified == intent # NotUsed

HardDefault == [type |-> "property_search", query |-> message, filters |-> EmptyDict]

\* The completion call was made and it raised
CompletionRaised ==
    /\ openai_service.configured
    /\ CallsCompletion(message)
    /\ openai_service.reply.kind \in {"error", "timeout"}

\* The rule-based classifier was consulted and its branch raised
RuleBranchRaised ==
    /\ \/ ~openai_service.configured
       \/ ~_validate_search_intent(
              openai_extract_search_intent(openai_service.reply, message, context))
    /\ classify_by_rules(message, context) = Raised

C9_ReturnedIntentIsValid ==
    (Classified /\ strip(message) # "") => _validate_search_intent(intent)

\* C10: when a completion service is configured and its call fails (error,
\* timeout, unparseable output), classify returns what the rule-based
\* classifier gives for the same message and context.
C10_FailedCallFallsBackToRules ==
    (/\ Classified
     /\ openai_service.configured
     /\ CallsCompletion(message)
     /\ openai_service.reply.kind \in {"error", "timeout", "unparseable"})
    => intent = _extract_search_intent_fallback(message, context)

\* A request goes to the completion service: one is configured and the OpenAI
\* service gets past its test of the message
CompletionRequested == openai_service.configured /\ CallsCompletion(message)

\* C11: for an empty or whitespace-only message classify returns the hard
\* default (type property_search, query the message, filters the empty map)
\* and sends no request to the completion service.
C11_BlankGivesHardDefault ==
    (Classified /\ strip(message) = "")
    => (intent = HardDefault /\ ~CompletionRequested)

\* The ids that the dispatcher reads from an intent:
\* search_intent.get("property_ids", [])
intent_property_ids(intent_) ==
    IF "property_ids" \in DOMAIN intent_ THEN intent_.property_ids ELSE <<>>

NoDuplicates(list) == \A i, j \in 1..Len(list) : list[i] = list[j] => i = j

\* C19: a property_compare intent that classify returns lists no property id
\* twice and lists at most 5 ids, whatever the message repeats and whatever
\* the current property id of the context.
C19_CompareIdsDistinctAtMostFive ==
    (Classified /\ intent.type = "property_compare")
    => /\ NoDuplicates(intent_property_ids(intent))
       /\ Len(intent_property_ids(intent)) <= MaxCompareIds

\* The current property id of the context, None when it is not known
CurrentPropertyId ==
    IF context.py = "dict" THEN context_get(context, "propertyId") ELSE None

\* The ids the statement asks for: the tokens of 8 digits or more in message
\* order, the current property id first when it is known and not among them,
\* the first 5 of these
ExpectedCompareIds ==
    LET tokens == findall_ids(message)
        listed == IF ~Falsy(CurrentPropertyId) /\ ~InList(CurrentPropertyId, tokens)
                  THEN <<CurrentPropertyId>> \o tokens
                  ELSE tokens
    IN SubSeq(listed, 1, IF Len(listed) < 5 THEN Len(listed) ELSE 5)

\* C20: for a message that holds a comparison keyword and numeric tokens of 8
\* digits or more, classify returns property_compare with the expected ids:
\* "Compare properties 18562768 and 18562769" gives the two ids in that order.
C20_CompareKeywordGivesCompare ==
    (/\ Classified
     /\ ContainsAny(strip(lower(message)), compare_keywords)
     /\ findall_ids(message) # <<>>)
    => /\ intent.type = "property_compare"
       /\ intent_property_ids(intent) = ExpectedCompareIds

-----------------------------------------------------------------------------
(* Chat turns that overlap.  process_message takes no lock and the routes   *)
(* build a ChatbotService per request (api/dependencies), so each request   *)
(* works on a conversation object of its own and the requests meet in the  *)
(* durable tier.  Between two store calls of one request the calls of       *)
(* another may run; everything a request does between its store calls      *)
(* touches its own objects only and is folded into the next call.  The      *)
(* store is reachable throughout and the clock stands still.                *)

MaxRequests == 2

RequestIds == 1..MaxRequests

\* The number of the turn of request r, after the turns of the stored rows
TurnOf(r) == Len(StoredRows) + r

NewRequest == [pc |-> "new", user_id |-> "", session_id |-> "", conv |-> NoConv]

\* The rows a read of the pair's active record can return: response.data[0]
\* of the rows that match, None when none matches
ReadRows(d, user_id, session_id) ==
    IF ActiveRows(d, user_id, session_id) = {} THEN {0} ELSE ActiveRows(d, user_id, session_id)

RaceOnly ==
    UNCHANGED <<memory_cache, now, turns, last_touched, last,
                message, context, openai_service, intent, threads,
                backend, completed>>

InitRace ==
    /\ db \in {<<>>, StoredRows}
    /\ requests = [r \in RequestIds |-> NewRequest]
    /\ memory_cache = <<>>
    /\ now = 0
    /\ turns = 0
    /\ last_touched = [k \in CacheKeys |-> -1]
    /\ last = Other
    /\ message = NotUsed
    /\ context = NotUsed
    /\ openai_service = NotUsed
    /\ intent = NotUsed
    /\ threads = NotUsed
    /\ backend = NotUsed
    /\ completed = NotUsed

\* A request for pair p arrives and gets its service
Arrive(r, p) ==
    /\ requests[r].pc = "new"
    /\ requests' = [requests EXCEPT ![r] = [NewRequest EXCEPT !.pc = "start",
                                                              !.user_id = p[1],
                                                              !.session_id = p[2]]]
    /\ UNCHANGED db
    /\ RaceOnly

\* conversation_manager.get_conversation: the memory of the new service is
\* empty, the durable tier is read
ReadConversation(r, i) ==
    /\ requests[r].pc = "start"
    /\ i \in ReadRows(db, requests[r].user_id, requests[r].session_id)
    /\ LET g == get_conversation(<<>>, db, requests[r].user_id, requests[r].session_id,
                                 now, TRUE, i)
       IN /\ requests' = [requests EXCEPT ![r].pc = IF g.found THEN "loaded" ELSE "retry",
                                          ![r].conv = g.conv]
          /\ db' = g.db
    /\ RaceOnly

\* get_or_create_conversation after get_conversation found nothing: it reads
\* the durable tier once more and builds a new conversation when that finds
\* nothing either
ReadOrCreate(r, i) ==
    /\ requests[r].pc = "retry"
    /\ i \in ReadRows(db, requests[r].user_id, requests[r].session_id)
    /\ LET g == get_or_create_conversation(<<>>, db, requests[r].user_id,
                                           requests[r].session_id, now, TRUE, i)
       IN /\ requests' = [requests EXCEPT ![r].pc = "loaded", ![r].conv = g.conv]
          /\ db' = g.db
    /\ RaceOnly

\* The two appends, then save_conversation_to_cache
SaveToCache(r) ==
    /\ requests[r].pc = "loaded"
    /\ LET c1 == [requests[r].conv EXCEPT
                     !.messages = Append(Append(@, UserMessage(TurnOf(r))), AssistantMessage(TurnOf(r)))]
       IN /\ requests' = [requests EXCEPT ![r].pc = "saved", ![r].conv = c1]
          /\ db' = update_conversation(db, requests[r].user_id, requests[r].session_id, c1, now)
    /\ RaceOnly

\* The create of a conversation that has no id, else the second update
PersistConversation(r) ==
    /\ requests[r].pc = "saved"
    /\ LET c == requests[r].conv
       IN IF c.id = NoId
          THEN /\ db' = create_conversation(db, requests[r].user_id, requests[r].session_id,
                                            c, now)
               /\ requests' = [requests EXCEPT ![r].pc = "persisted",
                                               ![r].conv = [c EXCEPT !.id = Len(db')]]
          ELSE /\ db' = update_conversation(db, requests[r].user_id, requests[r].session_id,
                                            c, now)
               /\ requests' = [requests EXCEPT ![r].pc = "persisted"]
    /\ RaceOnly

\* cleanup_old_conversations, then the response
CleanupAndRespond(r) ==
    /\ requests[r].pc = "persisted"
    /\ db' = cleanup_expired_conversations(db, now)
    /\ requests' = [requests EXCEPT ![r].pc = "done"]
    /\ RaceOnly

NextRace ==
    \/ \E r \in RequestIds, p \in TurnPairs : Arrive(r, p)
    \/ \E r \in RequestIds, i \in 0..Len(db) : ReadConversation(r, i)
    \/ \E r \in RequestIds, i \in 0..Len(db) : ReadOrCreate(r, i)
    \/ \E r \in RequestIds : SaveToCache(r)
    \/ \E r \in RequestIds : PersistConversation(r)
    \/ \E r \in RequestIds : CleanupAndRespond(r)

SpecRace == InitRace /\ [][NextRace]_vars

\* The list holds the user message of turn n directly followed by its reply
HoldsTurn(ms, n) ==
    \E j \in 1..(Len(ms) - 1) : ms[j] = UserMessage(n) /\ ms[j + 1] = AssistantMessage(n)

\* C6: two turns for one (user_id, session_id) do not overlap inside the
\* load-mutate-save cycle, so once both requests have completed the session's
\* durable record holds the messages of both turns, each reply directly after
\* its user message.
C6_BothTurnsHeld ==
    \A r1, r2 \in RequestIds :
        (/\ r1 # r2
         /\ requests[r1].pc = "done" /\ requests[r2].pc = "done"
         /\ requests[r1].user_id = requests[r2].user_id
         /\ requests[r1].session_id = requests[r2].session_id)
        => \E i \in ActiveRows(db, requests[r1].user_id, requests[r1].session_id) :
               /\ HoldsTurn(db[i].data.messages, TurnOf(r1))
               /\ HoldsTurn(db[i].data.messages, TurnOf(r2))

-----------------------------------------------------------------------------
(* Threads on one memory cache.  A ChatbotService kept for all requests     *)
(* (the singleton of api/endpoints) has one _memory_cache; neither          *)
(* add_to_memory_cache nor get_conversation takes a lock, so the threads    *)
(* interleave between the statements.  Each thread runs                     *)
(* get_or_create_conversation for a pair; the durable tier holds no row.    *)

MaxThreads == 2
MaxOps == 4

ThreadIds == 1..MaxThreads

IdleThread == [pc |-> "idle", key |-> "", conv |-> NoConv, victim |-> ""]

SharedOnly ==
    UNCHANGED <<db, now, turns, last_touched,
                message, context, openai_service, intent, requests,
                backend, completed>>

InitShared ==
    /\ threads = [started |-> 0, th |-> [t \in ThreadIds |-> IdleThread]]
    /\ memory_cache = <<>>
    /\ db = <<>>
    /\ now = 0
    /\ turns = 0
    /\ last_touched = [k \in CacheKeys |-> -1]
    /\ last = Other
    /\ message = NotUsed
    /\ context = NotUsed
    /\ openai_service = NotUsed
    /\ intent = NotUsed
    /\ requests = NotUsed
    /\ backend = NotUsed
    /\ completed = NotUsed

SetThread(t, rec) == [threads EXCEPT !.th[t] = rec]

\* The membership test `cache_key in _memory_cache`; on a miss the read of
\* the durable tier finds nothing and the new conversation is built
Begin(t, p) ==
    /\ threads.th[t].pc = "idle"
    /\ threads.started < MaxOps
    /\ LET k == cache_key(p[1], p[2])
       IN threads' = [started |-> threads.started + 1,
                      th |-> [threads.th EXCEPT ![t] =
                                 IF MemHas(memory_cache, k)
                                 THEN [IdleThread EXCEPT !.pc = "fetch", !.key = k]
                                 ELSE [IdleThread EXCEPT !.pc = "check", !.key = k,
                                          !.conv = NewConversation(p[1], p[2], now)]]]
    /\ last' = Other
    /\ UNCHANGED memory_cache
    /\ SharedOnly

\* `_memory_cache[cache_key]` and the refresh of last_activity; KeyError when
\* the entry has gone since the membership test
Fetch(t) ==
    /\ threads.th[t].pc = "fetch"
    /\ LET k == threads.th[t].key
       IN IF MemHas(memory_cache, k)
          THEN /\ memory_cache' = MemSet(memory_cache, k,
                                         [MemGet(memory_cache, k) EXCEPT !.last_activity = now])
               /\ last' = [op |-> "lookup", raised |-> FALSE]
          ELSE /\ memory_cache' = memory_cache
               /\ last' = [op |-> "lookup", raised |-> TRUE]
    /\ threads' = SetThread(t, IdleThread)
    /\ SharedOnly

\* `if len(self._memory_cache) >= self._cache_max_size`
CheckFull(t) ==
    /\ threads.th[t].pc = "check"
    /\ threads' = SetThread(t, [threads.th[t] EXCEPT
                                   !.pc = IF CacheIsFull(memory_cache) THEN "pick" ELSE "store"])
    /\ last' = Other
    /\ UNCHANGED memory_cache
    /\ SharedOnly

\* `oldest_session = min(...)`; ValueError on a dict that has become empty
PickOldest(t) ==
    /\ threads.th[t].pc = "pick"
    /\ IF memory_cache = <<>>
       THEN /\ threads' = SetThread(t, IdleThread)
            /\ last' = [op |-> "insert", raised |-> TRUE]
       ELSE /\ threads' = SetThread(t, [threads.th[t] EXCEPT
                                           !.pc = "del", !.victim = OldestSession(memory_cache)])
            /\ last' = Other
    /\ UNCHANGED memory_cache
    /\ SharedOnly

\* `del self._memory_cache[oldest_session]`; KeyError when another thread has
\* removed the entry
DeleteOldest(t) ==
    /\ threads.th[t].pc = "del"
    /\ LET v == threads.th[t].victim
       IN IF MemHas(memory_cache, v)
          THEN /\ memory_cache' = MemDel(memory_cache, v)
               /\ threads' = SetThread(t, [threads.th[t] EXCEPT !.pc = "store"])
               /\ last' = [op |-> "evict",
                           oldest |-> \A j \in 1..Len(memory_cache) :
                                          MemGet(memory_cache, v).last_activity
                                              <= memory_cache[j].conv.last_activity]
          ELSE /\ memory_cache' = memory_cache
               /\ threads' = SetThread(t, IdleThread)
               /\ last' = [op |-> "insert", raised |-> TRUE]
    /\ SharedOnly

\* `self._memory_cache[session_id] = conversation`
StoreEntry(t) ==
    /\ threads.th[t].pc = "store"
    /\ memory_cache' = MemSet(memory_cache, threads.th[t].key, threads.th[t].conv)
    /\ threads' = SetThread(t, IdleThread)
    /\ last' = [op |-> "insert", raised |-> FALSE]
    /\ SharedOnly

\* The clock, while threads are at work
TickShared ==
    /\ TicksSoFar < MaxTicks
    /\ now' = now + MemoryIdleHours
    /\ UNCHANGED <<memory_cache, db, turns, last_touched, last,
                   message, context, openai_service, intent, requests, threads,
                   backend, completed>>

NextShared ==
    \/ \E t \in ThreadIds, p \in Pairs : Begin(t, p)
    \/ \E t \in ThreadIds : Fetch(t)
    \/ \E t \in ThreadIds : CheckFull(t)
    \/ \E t \in ThreadIds : PickOldest(t)
    \/ \E t \in ThreadIds : DeleteOldest(t)
    \/ \E t \in ThreadIds : StoreEntry(t)
    \/ TickShared

SpecShared == InitShared /\ [][NextShared]_vars

\* The map holds at most N entries
MapWithinCapacity == Len(memory_cache) <= CacheMaxSize

\* No insert has failed on its eviction
NoInsertFailed == ~(last.op = "insert" /\ last.raised)

\* The entry just evicted was one with the oldest last_activity
EvictedTheOldest == last.op = "evict" => last.oldest

-----------------------------------------------------------------------------
(* The dispatcher: PropertySearchService and POISearchService over the      *)
(* WeaviateService.  A Property is its zpid, its price (None when the       *)
(* store has none) and, for a search near POIs, the POI whose search        *)
(* returned it.  ChatbotService always holds a WeaviateService, so the      *)
(* tests "not self.weaviate_service" are false.                             *)

\* What a backend call does: it raises, or it returns a list
Raises == [raises |-> TRUE, items |-> <<>>]
Returns(items) == [raises |-> FALSE, items |-> items]

\* What a dispatch gives: the two result lists, the backend calls it made and
\* whether one of them raised
Found(properties, pois, calls, raised) ==
    [properties |-> properties, pois |-> pois, calls |-> calls, raised |-> raised]

Nothing == Found(<<>>, <<>>, <<>>, FALSE)

PerPoiLimit == 5
MaxNearResults == 10
MinRadius == 1
MaxRadius == 50000
MinCompareItems == 2

\* intent.get(key), intent.get(key, default)
intent_get(intent_, key, default) ==
    IF key \in DOMAIN intent_ THEN intent_[key] ELSE default

\* PropertySearchRequest validates the radius of a search near a POI, which
\* is a number here: it is within its range
ValidRadius(radius) == radius >= MinRadius /\ radius <= MaxRadius

\* POISearchRequest validates: a radius from 1 to 10000
MaxPoiRadius == 10000

ValidPoiRadius(radius) == radius >= MinRadius /\ radius <= MaxPoiRadius

\* WeaviatePOIService.get_pois_by_category: no fetch without a category, and
\* a fetch that raises gives the empty list
weaviate_get_pois_by_category(b, category) ==
    IF Falsy(category) THEN <<>> ELSE b.pois

\* The loop that removes duplicates: the first property of each zpid, until
\* the list holds MaxNearResults
RECURSIVE unique_properties_keeps_last(_, _)
unique_properties_keeps_last(all_properties, unique) ==
    IF all_properties = <<>> \/ Len(unique) >= MaxNearResults THEN unique
    ELSE unique_properties_keeps_last(
             Tail(all_properties),
             IF \E i \in 1..Len(unique) : unique[i].zpid = Head(all_properties).zpid
             THEN [i \in 1..Len(unique) |->
                      IF unique[i].zpid = Head(all_properties).zpid
                      THEN Head(all_properties) ELSE unique[i]]
             ELSE Append(unique, Head(all_properties)))

RECURSIVE unique_properties(_, _)
unique_properties(all_properties, unique) ==
    IF all_properties = <<>> \/ Len(unique) >= MaxNearResults THEN unique
    ELSE unique_properties(
             Tail(all_properties),
             IF \E i \in 1..Len(unique) : unique[i].zpid = Head(all_properties).zpid
             THEN unique
             ELSE Append(unique, Head(all_properties)))

\* The searches near the POIs from the j-th on: the properties they return,
\* one after the other, and the number of searches made; raised when one raises
RECURSIVE near_searches(_, _, _)
near_searches(b, n, j) ==
    IF j > n THEN [raised |-> FALSE, all |-> <<>>, made |-> 0]
    ELSE IF b.near[j].raises THEN [raised |-> TRUE, all |-> <<>>, made |-> 1]
    ELSE Only({[raised |-> rest.raised,
                all |-> IF rest.raised THEN <<>> ELSE b.near[j].items \o rest.all,
                made |-> rest.made + 1] :
                   rest \in {near_searches(b, n, j + 1)}})

search_properties_near_pois(b, intent_) ==
    LET filters == intent_get(intent_, "filters", EmptyDict)
        category == intent_get(filters, "poi_category", None)
        radius == intent_get(filters, "poi_radius", 2000)
        pois == weaviate_get_pois_by_category(b, category)
        fetch == IF Falsy(category) THEN <<>> ELSE <<"get_pois_by_category">>
    IN IF pois = <<>> THEN Found(<<>>, <<>>, fetch, FALSE)
       ELSE IF ~ValidRadius(radius) THEN Found(<<>>, <<>>, fetch, FALSE)
       ELSE Only({Found(IF r.raised THEN <<>> ELSE unique_properties(r.all, <<>>),
                        <<>>,
                        fetch \o [i \in 1..r.made |-> "search_properties"],
                        r.raised) :
                     r \in {near_searches(b, Len(pois), 1)}})

search_properties(b, intent_) ==
    IF Falsy(intent_get(intent_, "query", None)) THEN Nothing
    ELSE IF intent_get(intent_, "search_mode", None) = "near_pois"
    THEN search_properties_near_pois(b, intent_)
    ELSE IF b.search.raises THEN Found(<<>>, <<>>, <<"search_properties">>, TRUE)
    ELSE Found(b.search.items, <<>>, <<"search_properties">>, FALSE)

\* get_property_detail and the use of its result in process_message:
\* [property_detail.property] when there is one
\* A detail lookup that answers with a property after the backend raised
get_property_detail_answers_anyway(b, intent_) ==
    IF Falsy(intent_get(intent_, "property_id", None)) THEN Nothing
    ELSE IF b.detail.raises
    THEN Found(<<[zpid |-> "42", price |-> None, poi |-> 0]>>, <<>>,
               <<"get_property_detail">>, TRUE)
    ELSE Found(b.detail.items, <<>>, <<"get_property_detail">>, FALSE)

get_property_detail(b, intent_) ==
    IF Falsy(intent_get(intent_, "property_id", None)) THEN Nothing
    ELSE IF b.detail.raises THEN Found(<<>>, <<>>, <<"get_property_detail">>, TRUE)
    ELSE Found(b.detail.items, <<>>, <<"get_property_detail">>, FALSE)

search_pois(b, intent_) ==
    IF Falsy(intent_get(intent_, "property_id", None)) THEN Nothing
    ELSE IF ~ValidPoiRadius(intent_get(intent_, "radius", DefaultRadius)) THEN Nothing
    ELSE IF b.poi_search.raises THEN Found(<<>>, <<>>, <<"search_pois">>, TRUE)
    ELSE Found(<<>>, b.poi_search.items, <<"search_pois">>, FALSE)

\* PropertyCompareRequest validates: 2 to 5 ids, none twice
ValidCompareRequest(property_ids) ==
    /\ Len(property_ids) >= MinCompareItems
    /\ Len(property_ids) <= MaxCompareIds
    /\ NoDuplicates(property_ids)

\* The properties of the store among the requested ones, in request order
found_properties(b, property_ids) ==
    [i \in 1..Len(SelectSeq(property_ids, LAMBDA x : x \in b.stored)) |->
        [zpid |-> SelectSeq(property_ids, LAMBDA x : x \in b.stored)[i],
         price |-> None, poi |-> 0]]

\* A comparison that returns the properties it found
weaviate_compare_properties_found_only(b, property_ids) ==
    IF b.compare_raises THEN Raises ELSE Returns(found_properties(b, property_ids))

\* WeaviateComparisonService.compare_properties: one lookup for each id, and
\* ValueError unless every id was found
weaviate_compare_properties(b, property_ids) ==
    IF b.compare_raises THEN Raises
    ELSE IF Len(found_properties(b, property_ids)) # Len(property_ids) THEN Raises
    ELSE Returns(found_properties(b, property_ids))

compare_properties(b, intent_) ==
    LET property_ids == intent_get(intent_, "property_ids", <<>>)
    IN IF Len(property_ids) < 2 THEN Nothing
       ELSE IF ~ValidCompareRequest(property_ids) THEN Nothing
       ELSE Only({Found(r.items, <<>>, <<"compare_properties">>, r.raises) :
                     r \in {weaviate_compare_properties(b, property_ids)}})

\* A dispatch that searches whatever the type of the intent
dispatch_always_searches(b, intent_) == search_properties(b, intent_)

\* The branches of process_message on the type of the intent
dispatch(b, intent_) ==
    IF intent_.type = "property_search" THEN search_properties(b, intent_)
    ELSE IF intent_.type = "property_detail" THEN get_property_detail(b, intent_)
    ELSE IF intent_.type = "poi_search" THEN search_pois(b, intent_)
    ELSE IF intent_.type = "property_compare" THEN compare_properties(b, intent_)
    ELSE Nothing

-----------------------------------------------------------------------------
(* The dispatcher applied once to an intent and a backend drawn from small  *)
(* sets                                                                     *)

MaxPois == 3

Property(zpid, price, poi) == [zpid |-> zpid, price |-> price, poi |-> poi]

\* What one search near a POI can return: at most PerPoiLimit properties
NearLists ==
    {l \in {<<>>, <<"p1">>, <<"p1", "p2", "p3", "p4", "p5">>,
            <<"p4", "p5", "p6", "p7", "p8">>, <<"p9", "p10", "p11", "p12", "p13">>} :
        Len(l) <= PerPoiLimit}

NearOutcomes(j) ==
    {Raises} \cup {Returns([i \in 1..Len(l) |-> Property(l[i], None, j)]) : l \in NearLists}

\* The POIs of a category, at most MaxPois of them, and what the search near
\* each of them does
NearCases ==
    UNION {{[pois |-> [j \in 1..n |-> [name |-> j]], near |-> o] :
               o \in {f \in [1..n -> UNION {NearOutcomes(j) : j \in 1..n}] :
                         \A j \in 1..n : f[j] \in NearOutcomes(j)}} :
              n \in 0..MaxPois}

StoredIds == {"18562768", "18562769", "18562770"}

BackendUp ==
    [pois |-> <<>>, near |-> <<>>,
     search |-> Returns(<<Property("p1", None, 0), Property("p2", None, 0)>>),
     detail |-> Returns(<<Property("42", "250000", 0)>>),
     poi_search |-> Returns(<<[name |-> 1], [name |-> 2]>>),
     stored |-> StoredIds, compare_raises |-> FALSE]

Backends ==
    {[BackendUp EXCEPT !.pois = c.pois, !.near = c.near] : c \in NearCases}
        \cup {[BackendUp EXCEPT !.search = o] : o \in {Raises, Returns(<<>>)}}
        \cup {[BackendUp EXCEPT !.detail = o] :
                 o \in {Raises, Returns(<<>>), Returns(<<Property("42", None, 0)>>)}}
        \cup {[BackendUp EXCEPT !.poi_search = o] : o \in {Raises, Returns(<<>>)}}
        \cup {[BackendUp EXCEPT !.stored = S] : S \in SUBSET StoredIds}
        \cup {[BackendUp EXCEPT !.compare_raises = TRUE]}

NearIntent(category, radius) ==
    [type |-> "property_search",
     query |-> IF category # None THEN "home near " \o category ELSE "near me",
     filters |-> [poi_category |-> category, poi_radius |-> radius],
     search_mode |-> "near_pois"]

CompareIntent(property_ids) ==
    [type |-> "property_compare", property_ids |-> property_ids, query |-> "compare"]

\* Intents as the classifier returns them
DispatchIntents ==
    {[type |-> "property_search", query |-> "2 bed condo",
      filters |-> [city |-> None, property_id |-> None]],
     [type |-> "property_search", query |-> "", filters |-> EmptyDict],
     NearIntent("school", 500), NearIntent("school", 0), NearIntent(None, DefaultRadius),
     [type |-> "property_detail", property_id |-> "42", query |-> "details 42"],
     [type |-> "property_detail", property_id |-> None, query |-> "details"],
     [type |-> "poi_search", property_id |-> "18562768", category |-> "school",
      radius |-> DefaultRadius, query |-> "schools near"],
     [type |-> "poi_search", property_id |-> None, category |-> None,
      radius |-> DefaultRadius, query |-> "near"],
     CompareIntent(<<"18562768", "18562769">>),
     CompareIntent(<<"18562768", "18562769", "18562770">>),
     CompareIntent(<<"18562768", "18562768">>),
     CompareIntent(<<"18562768">>),
     CompareIntent(<<>>),
     [type |-> "property_compare", query |-> "compare properties",
      filters |-> [property_ids |-> <<"18562768", "18562769">>]],
     [type |-> "general_conversation", query |-> "hello", filters |-> EmptyDict]}

InitDispatch ==
    /\ intent \in DispatchIntents
    /\ backend \in Backends
    /\ last = Other
    /\ memory_cache = <<>>
    /\ db = <<>>
    /\ now = 0
    /\ turns = 0
    /\ last_touched = [k \in CacheKeys |-> -1]
    /\ message = NotUsed
    /\ context = NotUsed
    /\ openai_service = NotUsed
    /\ requests = NotUsed
    /\ threads = NotUsed
    /\ completed = NotUsed

Dispatch ==
    /\ last = Other
    /\ last' = [op |-> "dispatch", found |-> dispatch(backend, intent)]
    /\ UNCHANGED <<memory_cache, db, now, turns, last_touched, message, context,
                   openai_service, intent, requests, threads, backend, completed>>

NextDispatch == Dispatch

SpecDispatch == InitDispatch /\ [][NextDispatch]_vars

Dispatched == last.op = "dispatch"

NearPoisDispatched ==
    /\ Dispatched
    /\ intent.type = "property_search"
    /\ intent_get(intent, "search_mode", None) = "near_pois"

\* The searches near the POIs all returned
NoNearSearchRaised == \A j \in 1..Len(backend.near) : ~backend.near[j].raises

\* Some POI before the j-th returned a property with this zpid
ReturnedBefore(zpid, j) ==
    \E h \in 1..(j - 1) :
        \E i \in 1..Len(backend.near[h].items) : backend.near[h].items[i].zpid = zpid

\* C16: the result of a near_pois dispatch holds no two properties with the
\* same identifier, holds for each identifier its first occurrence in POI
\* order, and has at most 10 entries, whatever the POIs and the overlap of
\* the lists returned for them.
C16_NearPoisDistinctFirstSeenCapped ==
    NearPoisDispatched
    => LET properties == last.found.properties
       IN /\ \A i, j \in 1..Len(properties) :
                 properties[i].zpid = properties[j].zpid => i = j
          /\ \A i \in 1..Len(properties) :
                 ~ReturnedBefore(properties[i].zpid, properties[i].poi)
          /\ Len(properties) <= 10

\* Three POIs returned thirteen distinct properties, two of them twice, and
\* the result holds ten
C16_OverlapCutAtTen ==
    /\ NearPoisDispatched
    /\ NoNearSearchRaised
    /\ Len(backend.near) = 3
    /\ \E zpid \in {"p4", "p5"} : ReturnedBefore(zpid, 3)
    /\ Len(last.found.properties) = 10

\* The backend operations that match a type of intent; the composite search
\* near POIs fetches the POIs of the category before it searches
MatchingCalls(intent_) ==
    IF intent_.type = "property_search"
    THEN IF intent_get(intent_, "search_mode", None) = "near_pois"
         THEN {"get_pois_by_category", "search_properties"}
         ELSE {"search_properties"}
    ELSE IF intent_.type = "property_detail" THEN {"get_property_detail"}
    ELSE IF intent_.type = "poi_search" THEN {"search_pois"}
    ELSE IF intent_.type = "property_compare" THEN {"compare_properties"}
    ELSE {}

\* The intent lacks the field its type requires
MissingRequiredField(intent_) ==
    \/ intent_.type \in {"property_detail", "poi_search"}
       /\ Falsy(intent_get(intent_, "property_id", None))
    \/ intent_.type = "property_compare" /\ Len(intent_property_ids(intent_)) < 2

\* C17: a dispatch calls only the backend operation that matches the type of
\* the intent and never the completion service; for general_conversation and
\* for an intent that lacks its required field it makes no backend call and
\* returns empty property and POI lists, without raising.
C17_OnlyTheMatchingOperation ==
    Dispatched
    => /\ \A i \in 1..Len(last.found.calls) : last.found.calls[i] \in MatchingCalls(intent)
       /\ (intent.type = "general_conversation" \/ MissingRequiredField(intent))
          => /\ last.found.calls = <<>>
             /\ last.found.properties = <<>>
             /\ last.found.pois = <<>>
             /\ ~last.found.raised

\* A compare with one id made no call and returned nothing
C17_CompareWithOneIdNoCall ==
    /\ Dispatched
    /\ intent.type = "property_compare"
    /\ Len(intent_property_ids(intent)) = 1
    /\ last.found.calls = <<>>
    /\ last.found.properties = <<>>

\* C18: a property_compare dispatch returns every requested property, one for
\* each requested id, or the empty list; and the empty list whenever a
\* requested id is not found by the backend.
C18_CompareAllOrNothing ==
    (Dispatched /\ intent.type = "property_compare")
    => LET property_ids == intent_property_ids(intent)
           properties == last.found.properties
       IN /\ \/ properties = <<>>
             \/ /\ Len(properties) = Len(property_ids)
                /\ \A i \in 1..Len(properties) : properties[i].zpid = property_ids[i]
          /\ (\E i \in 1..Len(property_ids) : property_ids[i] \notin backend.stored)
             => properties = <<>>

\* The backend was asked for three properties, held some of them but not all,
\* and the dispatch returned none
C18_OneMissingGivesNone ==
    /\ Dispatched
    /\ intent.type = "property_compare"
    /\ last.found.calls = <<"compare_properties">>
    /\ Len(intent_property_ids(intent)) = 3
    /\ Cardinality(backend.stored) = 2
    /\ last.found.properties = <<>>

-----------------------------------------------------------------------------
(* One chat turn from the request to the response: the classifier, the      *)
(* dispatch, the composer and the two tiers together                        *)

\* build_context_from_conversation returns the context of the conversation: a
\* dict that always has keys, none of them propertyId or city
TurnContext == DictContext([last_search_intent |-> None])

TurnMessages ==
    {" ", "hello", "Compare 18562768 and 18562769", "details 42", "schools near 500 m",
     "restaurants near property 18562768"}

\* ChatRequest: the message and the optional context of the request; the
\* context is None or names the property the user is looking at
TurnRequests ==
    {[message |-> m, context |-> NoContext] :
        m \in TurnMessages \ {"restaurants near property 18562768"}}
    \cup {[message |-> "restaurants near property 18562768",
           context |-> DictContext([propertyId |-> "18562768"])]}

\* The completion service of a running ChatbotService is always configured;
\* its call for the intent fails, returns a candidate that is not valid, or
\* returns a poi_search that names a property
TurnServices ==
    {[configured |-> TRUE, reply |-> r] :
        r \in {[kind |-> "error"],
               [kind |-> "json",
                value |-> [py |-> "dict",
                           items |-> [type |-> "smalltalk", query |-> " ",
                                      filters |-> EmptyDict]]],
               [kind |-> "json",
                value |-> [py |-> "dict",
                           items |-> [type |-> "poi_search", query |-> "schools near",
                                      property_id |-> "18562768",
                                      filters |-> EmptyDict]]]}}

\* The intent of each message under each service
TurnIntents ==
    {[message |-> c[1], service |-> c[2],
      intent |-> extract_search_intent(c[2], c[1], TurnContext)] :
        c \in TurnMessages \X TurnServices}

TurnIntent(m, service) ==
    Only({c.intent : c \in {e \in TurnIntents : e.message = m /\ e.service = service}})

\* Two POIs whose result lists overlap
BackendNear ==
    [BackendUp EXCEPT
        !.pois = <<[name |-> 1], [name |-> 2]>>,
        !.near = <<Returns([i \in 1..5 |-> Property(<<"p1", "p2", "p3", "p4", "p5">>[i], None, 1)]),
                   Returns([i \in 1..5 |-> Property(<<"p4", "p5", "p6", "p7", "p8">>[i], None, 2)])>>]

\* The backend answers, or raises in one of its operations, or returns a
\* property that has no price
TurnBackends ==
    {BackendNear,
     [BackendNear EXCEPT !.search = Raises],
     [BackendNear EXCEPT !.near[2] = Raises],
     [BackendNear EXCEPT !.detail = Raises],
     [BackendNear EXCEPT !.detail = Returns(<<Property("42", None, 0)>>)],
     [BackendNear EXCEPT !.poi_search = Raises],
     [BackendNear EXCEPT !.compare_raises = TRUE]}

\* What the completion call of the composer does: it returns a text, returns
\* an empty text, or fails
LlmOutcomes == {"text", "blank", "error"}

StoreDown == [read |-> FALSE, save |-> FALSE, persist |-> FALSE, cleanup |-> FALSE]

\* The store is reachable during a turn or every call to it fails
TurnStores == {StoreUp, StoreDown}

Composed(text) == [raises |-> FALSE, text |-> text]

\* _get_fallback_response: the sentence of the intent type; formatting the
\* price of a property that has none raises
_get_fallback_response(intent_, properties) ==
    IF intent_.type = "property_detail" /\ properties # <<>> /\ properties[1].price = None
    THEN [raises |-> TRUE, text |-> ""]
    ELSE Composed("fallback " \o intent_.type)

Greeting ==
    "Hello! Welcome to Plotari. I'm here to help you find your perfect property. What are you looking for today?"
Capabilities == "I can help you find properties!"
Welcome == "You're welcome!"
Farewell == "Goodbye!"
DoingGreat == "I'm doing great, thank you!"
HereToHelp == "I'm here to help you find properties!"

\* _get_fallback_conversational_response: the first sentence whose phrases the
\* lower-cased, stripped message contains
_get_fallback_conversational_response(message_) ==
    LET message_lower == strip(lower(message_))
    IN IF ContainsAny(message_lower,
                      {"hello", "hi", "hey", "hola", "good morning", "good afternoon",
                       "good evening", "buenos días", "buenas tardes"})
       THEN Greeting
       ELSE IF ContainsAny(message_lower,
                           {"what can you", "how can you help", "what do you do", "help me",
                            "qué puedes", "cómo puedes ayudar"})
       THEN Capabilities
       ELSE IF ContainsAny(message_lower, {"thank", "thanks", "gracias", "appreciate"})
       THEN Welcome
       ELSE IF ContainsAny(message_lower, {"bye", "goodbye", "see you", "adiós", "hasta luego"})
       THEN Farewell
       ELSE IF ContainsAny(message_lower, {"how are you", "cómo estás"})
       THEN DoingGreat
       ELSE HereToHelp

\* The canned reply of each message
CannedReplies ==
    {[message |-> m, text |-> _get_fallback_conversational_response(m)] : m \in TurnMessages}

CannedReply(m) == Only({c.text : c \in {e \in CannedReplies : e.message = m}})

search_types == {"property_search", "property_detail", "poi_search", "property_compare"}

\* The entries the turn writes to the search log: one for a search intent when
\* the conversation has an id and the write succeeds
log_search(intent_, conversation_id, logOk) ==
    IF intent_.type \in search_types /\ conversation_id # NoId /\ logOk THEN 1 ELSE 0

\* generate_response: the text of the completion call, the canned reply for
\* general_conversation when the call fails, else the fallback sentence, first
\* of the OpenAI service and, when that raises, of the generator itself
generate_response(message_, intent_, properties, llm) ==
    IF llm = "text" THEN Composed("reply")
    ELSE IF llm = "blank" THEN Composed("")
    ELSE IF intent_.type = "general_conversation" THEN Composed(CannedReply(message_))
    ELSE _get_fallback_response(intent_, properties)

InvalidReply == "Please provide a valid message."
ErrorReply == "Sorry, an error occurred while processing your query. Please try again."

MaxShown == 5

First(list, n) == SubSeq(list, 1, IF Len(list) < n THEN Len(list) ELSE n)

\* ChatResponse; conversation_length is 0 where the metadata has none
ChatResponse(message_, properties, pois, conversation_length) ==
    [message |-> message_, properties_found |-> First(properties, MaxShown),
     pois_found |-> First(pois, MaxShown), conversation_length |-> conversation_length]

\* An error response that carries the text of the exception as its message
_create_error_response_leaks(message_, error) == ChatResponse(error, <<>>, <<>>, 0)

_create_error_response(message_, error) == ChatResponse(message_, <<>>, <<>>, 0)

\* The turn when the composer raised: the user message stays appended to the
\* conversation in memory, nothing is saved
TurnAborted(g, k, n, found) ==
    [kind |-> "apology", mem |-> MemSet(g.mem, k, [g.conv EXCEPT !.messages = Append(@, UserMessage(n))]),
     db |-> g.db, prior |-> g.conv.messages, found |-> found, conversation_id |-> g.conv.id,
     composed |-> FALSE, saved |-> FALSE, raised |-> TRUE,
     response |-> _create_error_response(ErrorReply, "TypeError")]

\* The turn when a text was composed: the messages are appended and saved;
\* ChatResponse rejects an empty text after that
TurnSaved(r, text, found) ==
    [kind |-> IF text = "" THEN "apology" ELSE "reply",
     mem |-> r.mem, db |-> r.db, prior |-> r.load.conv.messages, found |-> found,
     conversation_id |-> r.load.conv.id,
     composed |-> TRUE, saved |-> TRUE, raised |-> text = "",
     response |-> IF text = ""
                  THEN _create_error_response(ErrorReply, "ValidationError")
                  ELSE ChatResponse(text, found.properties, found.pois, Len(r.conv.messages))]

\* A message that is empty after strip is answered before anything is loaded
TurnInvalid(mem, d) ==
    [kind |-> "invalid", mem |-> mem, db |-> d, prior |-> <<>>, found |-> Nothing,
     conversation_id |-> NoId,
     composed |-> FALSE, saved |-> FALSE, raised |-> FALSE,
     response |-> _create_error_response(InvalidReply, None)]

ComposeTurn(mem, d, p, t, n, f, i, found, c) ==
    IF c.raises
    THEN Only({TurnAborted(g, cache_key(p[1], p[2]), n, found) :
                  g \in {LoadConversation(mem, d, p[1], p[2], t, f.read, i)}})
    ELSE Only({TurnSaved(r, c.text, found) :
                  r \in {process_message(mem, d, p[1], p[2], t, n, f, i)}})

DispatchTurn(mem, d, p, t, n, m, f, i, intent_, found, llm) ==
    Only({ComposeTurn(mem, d, p, t, n, f, i, found, c) :
             c \in {generate_response(m, intent_, found.properties, llm)}})

\* process_message with its collaborators
chat_turn(mem, d, p, t, n, m, intent_, b, llm, f, i) ==
    IF strip(m) = "" THEN TurnInvalid(mem, d)
    ELSE Only({DispatchTurn(mem, d, p, t, n, m, f, i, intent_, found, llm) :
                  found \in {dispatch(b, intent_)}})

ChatPairs == {PairSeq[1]}

NoTurns == [turns |-> <<>>, store_up |-> FALSE]

InitTurn ==
    /\ memory_cache = <<>>
    /\ db = <<>>
    /\ now = 0
    /\ turns = 0
    /\ last_touched = [k \in CacheKeys |-> -1]
    /\ last = Other
    /\ message = NotUsed
    /\ context = NotUsed
    /\ openai_service = NotUsed
    /\ intent = NotUsed
    /\ requests = NotUsed
    /\ threads = NotUsed
    /\ backend = NotUsed
    /\ completed = [k \in CacheKeys |-> NoTurns]

\* completed[k]: the turns of session k that ended with a normal reply, and
\* whether a turn of it ran while the store was reachable
Completed(done, k, n, r, f) ==
    [done EXCEPT ![k] = [turns |-> IF r.kind = "reply" THEN Append(@.turns, n) ELSE @.turns,
                         store_up |-> @.store_up \/ (r.kind # "invalid" /\ AllOk(f))]]

\* The row a durable read of the turn returns: no read is made on a memory
\* hit, and a failed read returns none
TurnRead(p, f, i) ==
    IF MemHas(memory_cache, cache_key(p[1], p[2])) \/ ~f.read
    THEN i = 0
    ELSE \/ i \in ActiveRows(db, p[1], p[2])
         \/ i = 0 /\ ActiveRows(db, p[1], p[2]) = {}

\* The intent comes from the message and the context of the conversation; the
\* context of the request is not read
TurnStep(p, req, service, b, llm, f, logOk, i) ==
    /\ turns < MaxTurns
    /\ TurnRead(p, f, i)
    /\ \E r \in {chat_turn(memory_cache, db, p, now, turns + 1, req.message,
                           TurnIntent(req.message, service), b, llm, f, i)} :
          /\ memory_cache' = r.mem
          /\ db' = r.db
          /\ last' = [op |-> "chat", user_id |-> p[1], session_id |-> p[2], n |-> turns + 1,
                      kind |-> r.kind, response |-> r.response, found |-> r.found,
                      prior |-> r.prior, composed |-> r.composed, saved |-> r.saved,
                      raised |-> r.raised, store_up |-> AllOk(f), llm |-> llm,
                      log_up |-> logOk,
                      logs |-> IF r.kind = "invalid" THEN 0
                               ELSE log_search(TurnIntent(req.message, service),
                                               r.conversation_id, logOk)]
          /\ completed' = Completed(completed, cache_key(p[1], p[2]), turns + 1, r, f)
          /\ last_touched' =
                 IF r.kind = "invalid" THEN last_touched
                 ELSE Resident(Touch(last_touched, cache_key(p[1], p[2]), now), r.mem)
    /\ message' = req.message
    /\ context' = req.context
    /\ openai_service' = service
    /\ intent' = IF strip(req.message) = "" THEN NotUsed ELSE TurnIntent(req.message, service)
    /\ turns' = turns + 1
    /\ UNCHANGED <<now, threads, backend>>

\* POST /api/chat
ChatTurn(p, req, service, b, llm, f, logOk, i) ==
    /\ TurnStep(p, req, service, b, llm, f, logOk, i)
    /\ UNCHANGED requests

NextTurn ==
    \/ \E p \in ChatPairs, req \in TurnRequests, service \in TurnServices, b \in TurnBackends,
          llm \in LlmOutcomes, f \in TurnStores, logOk \in BOOLEAN, i \in 0..Len(db) :
              /\ logOk => AllOk(f)
              /\ ChatTurn(p, req, service, b, llm, f, logOk, i)
    \/ NewService

SpecTurn == InitTurn /\ [][NextTurn]_vars

ChatDone == last.op = "chat"

\* The session of the last turn is in the memory cache and its list ends with
\* the user message and the reply of that turn
TurnInMemory ==
    /\ MemHas(memory_cache, cache_key(last.user_id, last.session_id))
    /\ LET messages == MemGet(memory_cache, cache_key(last.user_id, last.session_id)).messages
       IN /\ Len(messages) >= 2
          /\ SubSeq(messages, Len(messages) - 1, Len(messages))
                 = <<UserMessage(last.n), AssistantMessage(last.n)>>

LastKey == cache_key(last.user_id, last.session_id)

RECURSIVE MessagesOf(_)
MessagesOf(ns) ==
    IF ns = <<>> THEN <<>>
    ELSE <<UserMessage(Head(ns)), AssistantMessage(Head(ns))>> \o MessagesOf(Tail(ns))

\* C13: while no turn of a session has reached the store, the k-th completed
\* turn of the session reports conversation_length 2k and loaded the messages
\* of the k-1 completed turns before it.
C13_OutageTurnsAccumulate ==
    (ChatDone /\ last.kind = "reply" /\ ~completed[LastKey].store_up)
    => /\ last.response.conversation_length = 2 * Len(completed[LastKey].turns)
       /\ last.prior = MessagesOf(SubSeq(completed[LastKey].turns, 1,
                                         Len(completed[LastKey].turns) - 1))

\* The active row of the last turn's session holds the list the memory cache holds
TurnInStore ==
    \E i \in ActiveRows(db, last.user_id, last.session_id) :
        db[i].data.messages = MemGet(memory_cache, LastKey).messages

\* C14: when the backend raises in a dispatch branch, the branch yields no
\* properties and no POIs and the turn completes: the reply is composed, the
\* user message and the reply are appended to the session and the session is
\* saved; the response is the normal one unless the completion call of the
\* composer returned an empty text.
C14_BackendRaiseGivesEmptyBranch ==
    (ChatDone /\ last.found.raised)
    => /\ last.found.properties = <<>>
       /\ last.found.pois = <<>>
       /\ last.composed
       /\ last.saved
       /\ TurnInMemory
       /\ last.store_up => TurnInStore
       /\ last.llm # "blank" => last.kind = "reply"

\* The second search of a near_pois dispatch raised, after the first
\* returned, and the turn ended with a reply and a saved session
C14_SecondPoiSearchRaised ==
    /\ ChatDone
    /\ last.found.raised
    /\ last.found.calls = <<"get_pois_by_category", "search_properties", "search_properties">>
    /\ last.kind = "reply"
    /\ last.store_up
    /\ TurnInStore

\* C15: an exception raised inside a turn does not leave process_message: the
\* response carries the generic apology and no properties and no POIs.
C15_ExceptionBecomesApology ==
    (ChatDone /\ last.raised)
    => /\ last.kind = "apology"
       /\ last.response.message = ErrorReply
       /\ last.response.properties_found = <<>>
       /\ last.response.pois_found = <<>>

\* The composer raised on a property the dispatch had found
C15_ComposerRaisedWithResults ==
    /\ ChatDone
    /\ last.raised
    /\ ~last.composed
    /\ last.found.properties # <<>>
    /\ last.response.message = ErrorReply
    /\ last.response.properties_found = <<>>


-----------------------------------------------------------------------------
(* The context of the request, the canned replies and the search log *)

RulesDecided == openai_service.reply.kind = "json" /\ openai_service.reply.value.items.type = "smalltalk"

\* C21: a chat turn with the message 'restaurants near property 18562768' and
\* the request context {propertyId: '18562768'} has the intent poi_search with
\* category 'restaurant' and property_id '18562768' whenever the rules decide
\* the intent.
C21_ContextPropertyGivesPoiSearch ==
    (/\ ChatDone
     /\ message = "restaurants near property 18562768"
     /\ context = DictContext([propertyId |-> "18562768"])
     /\ RulesDecided)
    => /\ intent.type = "poi_search"
       /\ intent.category = "restaurant"
       /\ intent.property_id = "18562768"

\* C22: a chat turn whose message is 'hello' has the intent
\* general_conversation and calls no search backend, and when the completion
\* service is unavailable for the turn its reply is the canned greeting.
C22_HelloIsSmallTalk ==
    (ChatDone /\ message = "hello")
    => /\ intent.type = "general_conversation"
       /\ last.found.calls = <<>>
       /\ (openai_service.reply.kind = "error" /\ last.llm = "error")
              => (last.kind = "reply" /\ last.response.message = Greeting)

\* C27: with the store and the log reachable, a turn that ends with a normal
\* reply writes exactly one log entry when its intent is one of the four
\* search types, the first turn of a session included, and none when it is
\* general_conversation.
C27_OneLogEntryPerSearchTurn ==
    (ChatDone /\ last.kind = "reply" /\ last.store_up /\ last.log_up)
    => last.logs = IF intent.type \in search_types THEN 1 ELSE 0


-----------------------------------------------------------------------------
(* Lookups, history reads and maintenance passes over the two tiers, the    *)
(* durable tier holding the records of two sessions                         *)

MinLimit == 1
MaxLimit == 50
MaxAsked == 3

\* The first limit messages in place of the last
get_conversation_history_head(g, limit) ==
    IF ~g.found THEN <<>>
    ELSE IF limit >= Len(g.conv.messages) THEN g.conv.messages
    ELSE SubSeq(g.conv.messages, 1, limit)

\* get_conversation_history: the last limit messages, all of them when limit
\* is falsy, none when the conversation is not found
get_conversation_history(g, limit) ==
    IF ~g.found THEN <<>>
    ELSE IF limit = 0 THEN g.conv.messages
    ELSE IF limit >= Len(g.conv.messages) THEN g.conv.messages
    ELSE SubSeq(g.conv.messages, Len(g.conv.messages) - limit + 1, Len(g.conv.messages))

SamePair(l, p) == l.user_id = p[1] /\ l.session_id = p[2]

\* The rows the read of the store of one lookup can return: none (0) on a
\* memory hit, when the read fails or when the session has no active row, else
\* any active row of the session
StoreRows(p, readOk) ==
    IF MemHas(memory_cache, cache_key(p[1], p[2])) \/ ~readOk
       \/ ActiveRows(db, p[1], p[2]) = {}
    THEN {0}
    ELSE ActiveRows(db, p[1], p[2])

\* ConversationManagerService.get_conversation as one operation
GetConversation(p, readOk, i) ==
    /\ Usable(p)
    /\ i \in StoreRows(p, readOk)
    /\ LET g == get_conversation(memory_cache, db, p[1], p[2], now, readOk, i)
           again == last.op = "lookup" /\ SamePair(last, p)
       IN /\ memory_cache' = g.mem
          /\ db' = g.db
          /\ last' = [op |-> "lookup", user_id |-> p[1], session_id |-> p[2],
                      found |-> g.found, hit |-> g.hit, conv |-> g.conv, ok |-> readOk,
                      existed |-> ActiveRows(db, p[1], p[2]) # {},
                      again |-> again, prev_load |-> again /\ last.found /\ ~last.hit]
          /\ last_touched' = IF g.found
                             THEN Resident(Touch(last_touched, cache_key(p[1], p[2]), now), g.mem)
                             ELSE last_touched
    /\ UNCHANGED <<now, turns>>
    /\ SessionOnly

\* GET /conversation/{user_id}/{session_id}/history: 400 for a limit outside
\* 1..50, else the messages get_conversation_history returns
GetConversationHistory(p, limit, readOk, i) ==
    /\ Usable(p)
    /\ i \in StoreRows(p, readOk)
    /\ IF limit < MinLimit \/ limit > MaxLimit
       THEN /\ readOk
            /\ last' = [op |-> "history", user_id |-> p[1], session_id |-> p[2],
                        status |-> 400, limit |-> limit, ok |-> readOk, row |-> 0,
                        messages |-> <<>>]
            /\ UNCHANGED <<memory_cache, db, last_touched>>
       ELSE LET g == get_conversation(memory_cache, db, p[1], p[2], now, readOk, i)
            IN /\ memory_cache' = g.mem
               /\ db' = g.db
               /\ last' = [op |-> "history", user_id |-> p[1], session_id |-> p[2],
                           status |-> 200, limit |-> limit, ok |-> readOk, row |-> i,
                           messages |-> get_conversation_history(g, limit)]
               /\ last_touched' =
                      IF g.found
                      THEN Resident(Touch(last_touched, cache_key(p[1], p[2]), now), g.mem)
                      ELSE last_touched
    /\ UNCHANGED <<now, turns>>
    /\ SessionOnly

Deactivated(d1, d2) == Cardinality({i \in 1..Len(d1) : d1[i].is_active /\ ~d2[i].is_active})

\* CacheManagerService.cleanup_old_conversations as one operation
CleanupOldConversations(cleanupOk) ==
    /\ memory_cache' = cleanup_memory(memory_cache, now)
    /\ db' = IF cleanupOk THEN cleanup_expired_conversations(db, now) ELSE db
    /\ last' = [op |-> "maintenance", user_id |-> None, session_id |-> None,
                ok |-> cleanupOk,
                evicted |-> Len(memory_cache) - Len(memory_cache'),
                deactivated |-> Deactivated(db, db'),
                again |-> last.op = "maintenance",
                prev_ok |-> last.op = "maintenance" /\ last.ok,
                prev_evicted |-> IF last.op = "maintenance" THEN last.evicted ELSE 0,
                prev_deactivated |-> IF last.op = "maintenance" THEN last.deactivated ELSE 0]
    /\ last_touched' = Resident(last_touched, memory_cache')
    /\ UNCHANGED <<now, turns>>
    /\ SessionOnly

\* A session that has a record and one that has none
StorePairs == {PairSeq[2], PairSeq[3]}

NextStore ==
    \/ \E p \in StorePairs, readOk \in BOOLEAN :
          \E i \in StoreRows(p, readOk) : GetConversation(p, readOk, i)
    \/ \E p \in StorePairs, limit \in 0..MaxAsked, readOk \in BOOLEAN :
          \E i \in StoreRows(p, readOk) : GetConversationHistory(p, limit, readOk, i)
    \/ \E p \in StorePairs, readOk \in BOOLEAN :
          \E i \in StoreRows(p, readOk) : GetOrCreate(p, readOk, i)
    \/ \E cleanupOk \in BOOLEAN : CleanupOldConversations(cleanupOk)
    \/ NewService
    \/ \E dt \in TickSteps : Tick(dt)

SpecStore == InitCache /\ [][NextStore]_vars


LookupKey == cache_key(last'.user_id, last'.session_id)

\* What a lookup that missed the memory cache returns and leaves behind
MissLoadsTheRecord ==
    IF last'.existed
    THEN /\ last'.found
         /\ \E i \in ActiveRows(db, last'.user_id, last'.session_id) :
               last'.conv.messages = db[i].data.messages
         /\ MemHas(memory_cache', LookupKey)
         /\ MemGet(memory_cache', LookupKey) = last'.conv
    ELSE /\ ~last'.found
         /\ memory_cache' = memory_cache
         /\ db' = db

\* A lookup directly after a lookup of the same session that loaded it
SecondLookupHits ==
    (last'.op = "lookup" /\ last'.prev_load) => (last'.hit /\ last'.conv = last.conv)

PassOnlyEvictsAndDeactivates ==
    /\ \A j \in 1..Len(memory_cache') : \E h \in 1..Len(memory_cache) :
          memory_cache'[j] = memory_cache[h]
    /\ Len(db') = Len(db)
    /\ \A i \in 1..Len(db) :
          \/ db'[i] = db[i]
          \/ /\ db[i].expires_at < now
             /\ db'[i] = [db[i] EXCEPT !.is_active = FALSE]

LastOf(list, limit) ==
    SubSeq(list, Len(list) - (IF limit < Len(list) THEN limit ELSE Len(list)) + 1, Len(list))

HistoryOfTheSession ==
    LET k == cache_key(last'.user_id, last'.session_id)
        rows == ActiveRows(db, last'.user_id, last'.session_id)
    IN IF MemHas(memory_cache, k)
       THEN last'.messages = LastOf(MemGet(memory_cache, k).messages, last'.limit)
       ELSE IF rows # {}
       THEN \E i \in rows : last'.messages = LastOf(db[i].data.messages, last'.limit)
       ELSE /\ last'.messages = <<>>
            /\ memory_cache' = memory_cache
            /\ db' = db

C30_PassEvictsExactlyTheIdle ==
    [][last'.op = "maintenance"
       => \A k \in CacheKeys :
             /\ MemHas(memory_cache', k) => last_touched'[k] >= now' - MemoryIdleHours
             /\ (MemHas(memory_cache, k) /\ last_touched[k] >= now - MemoryIdleHours)
                   => /\ MemHas(memory_cache', k)
                      /\ MemGet(memory_cache', k) = MemGet(memory_cache, k)]_vars

\* A pass that evicted an entry and kept one touched exactly one threshold ago
C30_KeptAtTheThreshold ==
    /\ last.op = "maintenance"
    /\ last.evicted > 0
    /\ \E k \in CacheKeys : MemHas(memory_cache, k) /\ last_touched[k] = now - MemoryIdleHours


-----------------------------------------------------------------------------
(* The order of the rules *)

Has(keywords) == ContainsAny(strip(lower(message)), keywords)

SmallTalk ==
    /\ Has(greeting_keywords \cup question_keywords \cup thanks_keywords \cup goodbye_keywords)
    /\ ~Has(property_keywords)

AmenityExtraction ==
    \/ intent.type = "poi_search"
    \/ intent.type = "property_search" /\ "search_mode" \in DOMAIN intent
       /\ intent.search_mode = "near_pois"

RulesClassified == intent # NotUsed /\ ~openai_service.configured /\ context # TextContext

\* C29: the rule-based classifier decides the type by the first rule that
\* matches the lower-cased message: small talk without a property keyword is
\* general_conversation whatever other keywords are present, else a comparison
\* keyword gives property_compare, else a detail keyword property_detail, else
\* a proximity keyword the amenity extraction, else property_search.
C29_FirstMatchingRuleDecides ==
    RulesClassified
    => IF SmallTalk THEN intent.type = "general_conversation"
       ELSE IF Has(compare_keywords) THEN intent.type = "property_compare"
       ELSE IF Has(detail_keywords) THEN intent.type = "property_detail"
       ELSE IF Has(poi_keywords) THEN AmenityExtraction
       ELSE intent.type = "property_search" /\ "search_mode" \notin DOMAIN intent

\* A greeting with comparison, detail and proximity keywords and no property
\* keyword
C29_GreetingBeatsEveryKeyword ==
    /\ RulesClassified
    /\ message = "HI compare details near"
    /\ intent.type = "general_conversation"


-----------------------------------------------------------------------------
(* POST /chat/message: the turn as a stream of events.  requests holds the  *)
(* position of the generator, the events it has yielded and whether an      *)
(* exception reached its handler.                                           *)

NoStream == [pc |-> "idle", events |-> <<>>, raised |-> FALSE]

\* A yield with the same event twice
sse_event_repeats(events, type) == Append(Append(events, type), type)

\* yield f"data: {json.dumps({'type': type, ...})}"
sse_event(events, type) == Append(events, type)

InitStream ==
    /\ memory_cache = <<>>
    /\ db = <<>>
    /\ now = 0
    /\ turns = 0
    /\ last_touched = [k \in CacheKeys |-> -1]
    /\ last = Other
    /\ message = NotUsed
    /\ context = NotUsed
    /\ openai_service = NotUsed
    /\ intent = NotUsed
    /\ requests = NoStream
    /\ threads = NotUsed
    /\ backend = NotUsed
    /\ completed = [k \in CacheKeys |-> NoTurns]

StreamOnly ==
    UNCHANGED <<memory_cache, db, now, turns, last_touched, last, message, context,
                openai_service, intent, threads, backend, completed>>

\* The generator of a new request yields the start event
StreamStart ==
    /\ requests.pc \in {"idle", "done"}
    /\ turns < MaxTurns
    /\ requests' = [pc |-> "process", events |-> sse_event(<<>>, "start"), raised |-> FALSE]
    /\ StreamOnly

\* response = chatbot_service.process_message(request), which answers its own
\* exceptions with the apology
StreamProcess(p, req, service, b, llm, f, logOk, i) ==
    /\ requests.pc = "process"
    /\ TurnStep(p, req, service, b, llm, f, logOk, i)
    /\ requests' = [requests EXCEPT !.pc = "respond"]

\* The response event; the serialisation of the response is the one call of
\* the generator that can raise after the start event
StreamResponse(dumpOk) ==
    /\ requests.pc = "respond"
    /\ requests' = IF dumpOk
                   THEN [requests EXCEPT !.pc = "end",
                                         !.events = sse_event(@, "response")]
                   ELSE [requests EXCEPT !.pc = "except", !.raised = TRUE]
    /\ StreamOnly

StreamEnd ==
    /\ requests.pc = "end"
    /\ requests' = [requests EXCEPT !.pc = "done", !.events = sse_event(@, "end")]
    /\ StreamOnly

\* except Exception: the error event, after which the generator returns
StreamError ==
    /\ requests.pc = "except"
    /\ requests' = [requests EXCEPT !.pc = "done", !.events = sse_event(@, "error")]
    /\ StreamOnly

NextStream ==
    \/ StreamStart
    \/ \E p \in ChatPairs, req \in TurnRequests, service \in TurnServices,
          llm \in LlmOutcomes, f \in TurnStores, i \in 0..Len(db) :
              StreamProcess(p, req, service, BackendNear, llm, f, AllOk(f), i)
    \/ \E dumpOk \in BOOLEAN : StreamResponse(dumpOk)
    \/ StreamEnd
    \/ StreamError

SpecStream == InitStream /\ [][NextStream]_vars

IsPrefix(s, t) == Len(s) <= Len(t) /\ s = SubSeq(t, 1, Len(s))

-----------------------------------------------------------------------------
(* cleanup_old_conversations on the memory cache of a ChatbotService that   *)
(* other threads use.  The pass takes no lock: between two steps of its     *)
(* loops another thread may complete a get, a get_or_create or a clear.     *)
(* threads holds the position of the pass and the count of the other        *)
(* operations; the durable tier holds no row.                               *)

IdlePass == [pc |-> "idle", size |-> 0, seen |-> 0, sessions_to_remove |-> <<>>]

InitSweep ==
    /\ threads = [ops |-> 0, pass |-> IdlePass]
    /\ memory_cache = <<>>
    /\ db = <<>>
    /\ now = 0
    /\ turns = 0
    /\ last_touched = [k \in CacheKeys |-> -1]
    /\ last = Other
    /\ message = NotUsed
    /\ context = NotUsed
    /\ openai_service = NotUsed
    /\ intent = NotUsed
    /\ requests = NotUsed
    /\ backend = NotUsed
    /\ completed = NotUsed

SweepOnly ==
    UNCHANGED <<db, turns, message, context, openai_service, intent, requests,
                backend, completed>>

OneMoreOp == [threads EXCEPT !.ops = @ + 1]

\* get_conversation of another thread, a hit: the refresh of last_activity
SharedGet(p) ==
    /\ threads.ops < MaxOps
    /\ MemHas(memory_cache, cache_key(p[1], p[2]))
    /\ LET g == get_conversation(memory_cache, db, p[1], p[2], now, TRUE, 0)
       IN /\ memory_cache' = g.mem
          /\ last_touched' = Touch(last_touched, cache_key(p[1], p[2]), now)
    /\ threads' = OneMoreOp
    /\ last' = Other
    /\ UNCHANGED now
    /\ SweepOnly

\* get_or_create_conversation of another thread for a session that is not in
\* the memory cache
SharedGetOrCreate(p) ==
    /\ threads.ops < MaxOps
    /\ ~MemHas(memory_cache, cache_key(p[1], p[2]))
    /\ LET g == get_or_create_conversation(memory_cache, db, p[1], p[2], now, TRUE, 0)
       IN /\ memory_cache' = g.mem
          /\ last_touched' = Resident(Touch(last_touched, cache_key(p[1], p[2]), now), g.mem)
    /\ threads' = OneMoreOp
    /\ last' = Other
    /\ UNCHANGED now
    /\ SweepOnly

\* clear_conversation of another thread
SharedClear(p) ==
    /\ threads.ops < MaxOps
    /\ MemHas(memory_cache, cache_key(p[1], p[2]))
    /\ memory_cache' = clear_conversation(memory_cache, db, p[1], p[2], TRUE).mem
    /\ last_touched' = Resident(last_touched, memory_cache')
    /\ threads' = OneMoreOp
    /\ last' = Other
    /\ UNCHANGED now
    /\ SweepOnly

\* cutoff_time, sessions_to_remove = [] and the iterator over
\* self._memory_cache.items()
CleanupBegin ==
    /\ threads.pass.pc \in {"idle", "done", "stopped"}
    /\ threads' = [threads EXCEPT !.pass = [pc |-> "scan", size |-> Len(memory_cache),
                                            seen |-> 0, sessions_to_remove |-> <<>>]]
    /\ last' = Other
    /\ UNCHANGED <<memory_cache, last_touched, now>>
    /\ SweepOnly

\* One step of the for loop over the dict: RuntimeError when the size of the
\* dict has changed since the iterator was made, which the except clause of
\* the pass catches; else the next entry, collected when it is idle
CleanupScan ==
    /\ threads.pass.pc = "scan"
    /\ threads' =
          IF Len(memory_cache) # threads.pass.size
          THEN [threads EXCEPT !.pass.pc = "stopped"]
          ELSE IF threads.pass.seen = Len(memory_cache)
          THEN [threads EXCEPT !.pass.pc = "delete"]
          ELSE [threads EXCEPT
                   !.pass.seen = @ + 1,
                   !.pass.sessions_to_remove =
                       IF IsIdle(memory_cache[threads.pass.seen + 1].conv, now)
                       THEN Append(@, memory_cache[threads.pass.seen + 1].key)
                       ELSE @]
    /\ last' = Other
    /\ UNCHANGED <<memory_cache, last_touched, now>>
    /\ SweepOnly

\* One step of the loop of deletes: KeyError, caught by the same except
\* clause, when the entry has been removed since the scan
CleanupDelete ==
    /\ threads.pass.pc = "delete"
    /\ IF threads.pass.sessions_to_remove = <<>>
       THEN /\ threads' = [threads EXCEPT !.pass.pc = "done"]
            /\ last' = Other
            /\ UNCHANGED <<memory_cache, last_touched>>
       ELSE LET k == Head(threads.pass.sessions_to_remove)
            IN IF MemHas(memory_cache, k)
               THEN /\ memory_cache' = MemDel(memory_cache, k)
                    /\ last_touched' = Resident(last_touched, memory_cache')
                    /\ threads' = [threads EXCEPT !.pass.sessions_to_remove = Tail(@)]
                    /\ last' = [op |-> "evict", key |-> k, last_touched |-> last_touched[k],
                                at |-> now]
               ELSE /\ threads' = [threads EXCEPT !.pass.pc = "stopped"]
                    /\ last' = Other
                    /\ UNCHANGED <<memory_cache, last_touched>>
    /\ UNCHANGED now
    /\ SweepOnly

TickSweep ==
    /\ TicksSoFar < MaxTicks
    /\ now' = now + MemoryIdleHours
    /\ last' = Other
    /\ UNCHANGED <<memory_cache, last_touched, threads>>
    /\ SweepOnly

NextSweep ==
    \/ \E p \in Pairs : SharedGet(p)
    \/ \E p \in Pairs : SharedGetOrCreate(p)
    \/ \E p \in Pairs : SharedClear(p)
    \/ CleanupBegin
    \/ CleanupScan
    \/ CleanupDelete
    \/ TickSweep

SpecSweep == InitSweep /\ [][NextSweep]_vars

-----------------------------------------------------------------------------
(* The context of a conversation over the turns of one session.  context    *)
(* holds the dict and the identity of the object the conversation refers    *)
(* to; numbers are written as their decimal text.                           *)

\* not value, for None, a text or a number
NotValue(value) == value \in {None, "", "0"}

\* The context get_or_create_conversation gives a new conversation
NewContext ==
    [id |-> 1,
     items |-> [last_search_intent |-> None, last_properties |-> <<>>, last_pois |-> <<>>,
                user_preferences |-> EmptyDict, current_location |-> None,
                current_property |-> None]]

SetPreference(context_, key, value) ==
    [context_ EXCEPT !.items.user_preferences = DictSet(@, key, value)]

ContextMessages == {"hello", "2 bed condo", "house in california"}

\* What build_context_from_conversation reads in the last user message
location_named(content) ==
    ContainsAny(lower(content), {"crescent city", "california", "ca"})

property_type_named(content) ==
    IF ContainsAny(lower(content), {"casa", "house", "home"}) THEN "house"
    ELSE IF ContainsAny(lower(content), {"apartamento", "apartment", "condo"}) THEN "apartment"
    ELSE None

\* The two readings of each message
MessageSignals ==
    {[content |-> m, location |-> location_named(m), property_type |-> property_type_named(m)] :
        m \in ContextMessages}

SignalsOf(content) == Only({e \in MessageSignals : e.content = content})

\* build_context_from_conversation: the context itself, after the location
\* and the property type the last user message names were written into it
build_context_from_conversation(context_, content) ==
    LET located ==
            IF SignalsOf(content).location
            THEN [context_ EXCEPT !.items.current_location = "Crescent City, CA"]
            ELSE context_
    IN IF SignalsOf(content).property_type = None THEN located
       ELSE SetPreference(located, "property_type", SignalsOf(content).property_type)

MaxKept == 3

\* The light reference of a property kept in last_properties
LightRef(prop) == [zpid |-> prop.zpid, price |-> prop.price]

LightRefs(properties) ==
    [j \in 1..(IF Len(properties) < MaxKept THEN Len(properties) ELSE MaxKept) |->
        LightRef(properties[j])]

filters_of(search_intent) ==
    IF "filters" \in DOMAIN search_intent THEN search_intent.filters ELSE EmptyDict

filters_get(filters, key) == IF key \in DOMAIN filters THEN filters[key] ELSE None

PreferenceOf(context_, filters, key, preference) ==
    IF NotValue(filters_get(filters, key)) THEN context_
    ELSE SetPreference(context_, preference, filters_get(filters, key))

\* A context made anew from the signals of the turn alone
update_conversation_context_replaces(context_, search_intent, properties_found) ==
    [id |-> context_.id + 1,
     items |-> [NewContext.items EXCEPT !.last_search_intent = search_intent.type,
                                        !.last_properties = LightRefs(properties_found)]]

\* update_conversation_context; of the intent the model keeps the type and
\* the filters
update_conversation_context(context_, search_intent, properties_found) ==
    LET with_intent == [context_ EXCEPT !.items.last_search_intent = search_intent.type]
        with_properties ==
            IF properties_found # <<>>
            THEN [with_intent EXCEPT !.items.last_properties = LightRefs(properties_found)]
            ELSE with_intent
        filters == filters_of(search_intent)
    IN PreferenceOf(PreferenceOf(PreferenceOf(with_properties, filters, "city",
                                              "preferred_city"),
                                 filters, "min_bedrooms", "min_bedrooms"),
                    filters, "max_price", "max_price")

ContextFilters ==
    {EmptyDict, [city |-> "Miami"], [city |-> "Austin", min_bedrooms |-> "2"],
     [city |-> "", min_bedrooms |-> "0", max_price |-> None], [max_price |-> "500000"]}

ContextIntents ==
    {[type |-> "property_search", filters |-> f] : f \in ContextFilters}
        \cup {[type |-> "property_detail", property_id |-> "42"],
              [type |-> "general_conversation", filters |-> EmptyDict]}

ContextFound ==
    {<<>>, <<Property("p1", None, 0)>>,
     [j \in 1..5 |-> Property(<<"p1", "p2", "p3", "p4", "p5">>[j], "100", 0)]}

InitContext ==
    /\ context = NewContext
    /\ intent = NotUsed
    /\ message = NotUsed
    /\ last = Other
    /\ turns = 0
    /\ memory_cache = <<>>
    /\ db = <<>>
    /\ now = 0
    /\ last_touched = [k \in CacheKeys |-> -1]
    /\ openai_service = NotUsed
    /\ requests = NotUsed
    /\ threads = NotUsed
    /\ backend = NotUsed
    /\ completed = NotUsed

\* The part of process_message that touches the context: the context built
\* for the classifier and, when the composer returned, the update after the
\* reply
ContextTurn(m, search_intent, properties_found, composed) ==
    /\ turns < MaxTurns
    /\ context' = IF composed
                  THEN update_conversation_context(
                           build_context_from_conversation(context, m),
                           search_intent, properties_found)
                  ELSE build_context_from_conversation(context, m)
    /\ message' = m
    /\ intent' = search_intent
    /\ last' = [op |-> "context", composed |-> composed, found |-> properties_found]
    /\ turns' = turns + 1
    /\ UNCHANGED <<memory_cache, db, now, last_touched, openai_service, requests, threads,
                   backend, completed>>

NextContext ==
    \E m \in ContextMessages, search_intent \in ContextIntents,
       properties_found \in ContextFound, composed \in BOOLEAN :
          ContextTurn(m, search_intent, properties_found, composed)

SpecContext == InitContext /\ [][NextContext]_vars

Preferences == context.items.user_preferences

PreferenceKept(key, preference) ==
    key \notin DOMAIN filters_of(intent')
        => /\ (preference \in DOMAIN Preferences) = (preference \in DOMAIN Preferences')
           /\ preference \in DOMAIN Preferences => Preferences'[preference] = Preferences[preference]

\* C31: a turn that reaches the update of the context changes it by merging:
\* a preference whose filter the intent of the turn does not carry keeps its
\* value, last_properties keeps its value when the turn found no property and
\* else holds the first min(3, found) properties, no key of the context is
\* lost and the context stays the same object.
C31_ContextIsMergedNotReplaced ==
    [][(last'.op = "context" /\ last'.composed)
       => /\ PreferenceKept("city", "preferred_city")
          /\ PreferenceKept("min_bedrooms", "min_bedrooms")
          /\ PreferenceKept("max_price", "max_price")
          /\ context'.items.last_properties =
                 IF last'.found = <<>> THEN context.items.last_properties
                 ELSE LightRefs(last'.found)
          /\ Len(context'.items.last_properties) <= MaxKept
          /\ DOMAIN context.items \subseteq DOMAIN context'.items
          /\ DOMAIN Preferences \subseteq DOMAIN Preferences'
          /\ context'.id = context.id]_vars

\* A second turn that found nothing and carries no city, after a turn that
\* found five properties in Miami
C31_SecondTurnKeepsTheFirst ==
    /\ last.op = "context"
    /\ last.composed
    /\ last.found = <<>>
    /\ turns = 2
    /\ "city" \notin DOMAIN filters_of(intent)
    /\ Len(context.items.last_properties) = MaxKept
    /\ "preferred_city" \in DOMAIN Preferences
    /\ Preferences["preferred_city"] = "Miami"

\* ---------------------------------------------------------------------------
\* The request that search_properties hands to the search backend
\* ---------------------------------------------------------------------------

upper_char(c) ==
    IF Contains(LowerCase, c)
    THEN CharAt(UpperCase, CHOOSE i \in 1..Len(LowerCase) : CharAt(LowerCase, i) = c)
    ELSE c

\* s.upper(), for the letters a to z
RECURSIVE upper(_)
upper(s) == IF s = "" THEN "" ELSE upper_char(Head(s)) \o upper(Tail(s))

\* The helper of search_properties: a string of whitespace becomes None.
\* Numbers are written as decimal text, which is never blank.
clean_value(value) == IF value # None /\ strip(value) = "" THEN None ELSE value

StateCodeLen == 2

\* The error a validator of the request raises
ValueError == "<ValueError>"

\* The validator of the field state
validate_state(v) ==
    IF v # None /\ strip(v) # ""
    THEN IF Len(strip(v)) # StateCodeLen THEN ValueError ELSE upper(strip(v))
    ELSE None

\* The validator of the field query
validate_query(v) == IF v # None /\ strip(v) = "" THEN None ELSE strip(v)

IsNumberText(v) == v # "" /\ \A i \in 1..Len(v) : IsDigit(CharAt(v, i))

\* A field typed Optional[int] or Optional[float]: None or a number, anything
\* else fails the validation of the request
number_field(v) == IF v = None \/ IsNumberText(v) THEN v ELSE ValueError

SearchLimit == 10

NumberFilters ==
    {"min_price", "max_price", "min_bedrooms", "max_bedrooms", "min_bathrooms",
     "max_bathrooms", "latitude", "longitude", "radius"}

\* PropertySearchRequest(...) as search_properties builds it: the fields
\* neighborhood and property_type are never passed and keep their default
PropertySearchRequest(search_intent) ==
    LET filters == filters_of(search_intent)
        state == validate_state(clean_value(filters_get(filters, "state")))
        numbers == [k \in NumberFilters |-> number_field(filters_get(filters, k))]
    IN IF state = ValueError \/ \E k \in NumberFilters : numbers[k] = ValueError
       THEN Raised
       ELSE [query |-> validate_query(search_intent.query),
             limit |-> SearchLimit,
             city |-> clean_value(filters_get(filters, "city")),
             state |-> state,
             min_price |-> numbers["min_price"],
             max_price |-> numbers["max_price"],
             min_bedrooms |-> numbers["min_bedrooms"],
             max_bedrooms |-> numbers["max_bedrooms"],
             min_bathrooms |-> numbers["min_bathrooms"],
             max_bathrooms |-> numbers["max_bathrooms"],
             latitude |-> numbers["latitude"],
             longitude |-> numbers["longitude"],
             radius |-> numbers["radius"],
             neighborhood |-> None,
             property_type |-> None]

Absent == "<absent>"

\* What a completion may put under each filter; Absent leaves the key out
RequestValues ==
    [city |-> {Absent, "Miami", " "},
     state |-> {Absent, "CA", "ca", "California"},
     neighborhood |-> {Absent, "La Jolla"},
     property_type |-> {Absent, "Condo"},
     min_price |-> {Absent, "200000", " "},
     min_bedrooms |-> {Absent, None, "2"}]

\* The filters of a validated intent: cleaned of None, "" and "null"
RequestFilters ==
    {cleaned_filters([k \in {x \in DOMAIN f : f[x] # Absent} |-> f[k]]) :
        f \in {g \in [DOMAIN RequestValues -> UNION {RequestValues[k] : k \in DOMAIN RequestValues}] :
                  \A k \in DOMAIN RequestValues : g[k] \in RequestValues[k]}}

RequestIntents ==
    {[type |-> "property_search", query |-> "condos", filters |-> f] : f \in RequestFilters}

InitRequest ==
    /\ intent \in RequestIntents
    /\ last = Other
    /\ context = NotUsed
    /\ message = NotUsed
    /\ turns = 0
    /\ memory_cache = <<>>
    /\ db = <<>>
    /\ now = 0
    /\ last_touched = [k \in CacheKeys |-> -1]
    /\ openai_service = NotUsed
    /\ requests = NotUsed
    /\ threads = NotUsed
    /\ backend = NotUsed
    /\ completed = NotUsed

\* search_properties up to the call of the backend: sent tells whether the
\* backend was asked at all
SearchRequest ==
    /\ last = Other
    /\ last' = Only({[op |-> "request", sent |-> r # Raised, request |-> r] :
                       r \in {PropertySearchRequest(intent)}})
    /\ UNCHANGED <<memory_cache, db, now, turns, last_touched, message, context,
                   openai_service, intent, requests, threads, backend, completed>>

NextRequest == SearchRequest

SpecRequest == InitRequest /\ [][NextRequest]_vars

\* The value a filter is claimed to arrive with
Arrives(value) == IF value # None /\ strip(value) = "" THEN None ELSE value

\* C32: for a plain property_search intent the backend is asked with a
\* request of limit 10 in which every filter of intent.filters has its value,
\* a blank string being sent as null.
C32_EveryFilterReachesTheRequest ==
    last.op = "request"
        => /\ last.sent
           /\ last.request.limit = SearchLimit
           /\ \A k \in DOMAIN filters_of(intent) :
                  /\ k \in DOMAIN last.request
                  /\ last.request[k] = Arrives(filters_of(intent)[k])

\* The example of the classifier's prompt: condos in a city and a
\* neighborhood reach the backend without the neighborhood and the type
C32_NeighborhoodAndTypeAreDropped ==
    /\ last.op = "request"
    /\ last.sent
    /\ filters_of(intent) = [city |-> "Miami", neighborhood |-> "La Jolla", property_type |-> "Condo"]
    /\ last.request.city = "Miami"
    /\ last.request.neighborhood = None
    /\ last.request.property_type = None

\* ---------------------------------------------------------------------------
\* The composer without the completion service
\* ---------------------------------------------------------------------------

\* The text the composer is to return when the completion call is of no use
FallbackText(message_, intent_) ==
    IF intent_.type = "general_conversation" THEN CannedReply(message_)
    ELSE "fallback " \o intent_.type

\* C33: in a turn whose completion call fails the composer returns a text and
\* does not raise: the canned reply for general_conversation, and else the
\* sentence of the intent type, whatever the backend found.
C33_ComposerNeverRaisesWithoutCompletion ==
    (ChatDone /\ last.kind # "invalid" /\ last.llm = "error")
    => /\ last.composed
       /\ ~last.raised
       /\ last.response.message = FallbackText(message, intent)

\* ---------------------------------------------------------------------------
\* One active record per session
\* ---------------------------------------------------------------------------

\* C34: at every moment the durable tier holds at most one active record per
\* (user_id, session_id), also after a turn whose durable read failed and
\* after two first turns of one session that ran at the same time.
C34_AtMostOneActiveRecord ==
    \A p \in Pairs : Cardinality(ActiveRows(db, p[1], p[2])) <= 1

\* ---------------------------------------------------------------------------
\* Identifiers that contain the separator of the cache key
\* ---------------------------------------------------------------------------

\* user_id and session_id are free strings of the request.  The first two
\* pairs differ and have the same cache_key; with the third there are two
\* keys, which the cache holds without evicting.
KeyPairs == {<<"a:b", "c">>, <<"a", "b:c">>, <<"a", "b">>}

InitKeys ==
    /\ memory_cache = <<>>
    /\ db = <<>>
    /\ now = 0
    /\ turns = 0
    /\ last_touched = [k \in CacheKeys |-> -1]
    /\ last = Other
    /\ message = NotUsed
    /\ context = NotUsed
    /\ openai_service = NotUsed
    /\ intent = NotUsed
    /\ requests = NotUsed
    /\ threads = NotUsed
    /\ backend = NotUsed
    /\ completed = NotUsed

KeysOnly == UNCHANGED <<now, last_touched>> /\ SessionOnly

SessionCall(call, p, returned) ==
    [op |-> "session", call |-> call, user_id |-> p[1], session_id |-> p[2],
     returned |-> returned]

\* get_conversation for a pair
KeyGet(p, readOk, i) ==
    /\ ReadChoice(p, readOk, i)
    /\ \E g \in {get_conversation(memory_cache, db, p[1], p[2], now, readOk, i)} :
          /\ memory_cache' = g.mem
          /\ db' = g.db
          /\ last' = SessionCall("get", p, g.conv)
    /\ UNCHANGED turns
    /\ KeysOnly

\* get_or_create_conversation for a pair
KeyGetOrCreate(p, readOk, i) ==
    /\ ReadChoice(p, readOk, i)
    /\ \E g \in {get_or_create_conversation(memory_cache, db, p[1], p[2], now, readOk, i)} :
          /\ memory_cache' = g.mem
          /\ db' = g.db
          /\ last' = SessionCall("get_or_create", p, g.conv)
    /\ UNCHANGED turns
    /\ KeysOnly

\* clear_conversation for a pair
KeyClear(p, deleteOk) ==
    /\ \E r \in {clear_conversation(memory_cache, db, p[1], p[2], deleteOk)} :
          /\ memory_cache' = r.mem
          /\ db' = r.db
          /\ last' = SessionCall("clear", p, NoConv)
    /\ UNCHANGED turns
    /\ KeysOnly

\* A completed chat turn of a pair, the store being reachable
KeyTurn(p, i) ==
    /\ turns < MaxTurns
    /\ ReadChoice(p, TRUE, i)
    /\ \E r \in {process_message(memory_cache, db, p[1], p[2], now, turns + 1, StoreUp, i)} :
          /\ memory_cache' = r.mem
          /\ db' = r.db
          /\ last' = SessionCall("turn", p, r.conv)
    /\ turns' = turns + 1
    /\ KeysOnly

NextKeys ==
    \/ \E p \in KeyPairs, readOk \in BOOLEAN, i \in 0..Len(db) : KeyGet(p, readOk, i)
    \/ \E p \in KeyPairs, readOk \in BOOLEAN, i \in 0..Len(db) : KeyGetOrCreate(p, readOk, i)
    \/ \E p \in KeyPairs, deleteOk \in BOOLEAN : KeyClear(p, deleteOk)
    \/ \E p \in KeyPairs, i \in 0..Len(db) : KeyTurn(p, i)

SpecKeys == InitKeys /\ [][NextKeys]_vars

\* The conversation is the session of the pair
SessionOfPair(conv, user_id, session_id) ==
    conv.user_id = user_id /\ conv.session_id = session_id

\* C35: a get, getOrCreate or clear for one pair returns only the session of
\* that pair, and every session of another pair that the volatile tier holds
\* is held unchanged after the call, whatever characters the identifiers
\* contain.
C35_PairsNeverShareAnEntry ==
    [][(last'.op = "session" /\ last'.call \in {"get", "get_or_create", "clear"})
       => /\ last'.returned # NoConv
                => SessionOfPair(last'.returned, last'.user_id, last'.session_id)
          /\ \A j \in 1..Len(memory_cache) :
                 ~SessionOfPair(memory_cache[j].conv, last'.user_id, last'.session_id)
                     => \E h \in 1..Len(memory_cache') :
                            memory_cache'[h].conv = memory_cache[j].conv]_vars

\* ---------------------------------------------------------------------------
\* The two shapes of an intent
\* ---------------------------------------------------------------------------

\* An intent of the rules that names everything its operation needs: the ids
\* of a comparison, the property and the category of a POI search, the
\* category of a search near POIs
RuleShaped(intent_) ==
    \/ intent_.type = "property_compare" /\ "property_ids" \in DOMAIN intent_
    \/ /\ intent_.type = "poi_search"
       /\ "property_id" \in DOMAIN intent_ /\ intent_.property_id # None
       /\ "category" \in DOMAIN intent_ /\ intent_.category # None
    \/ /\ intent_.type = "property_search"
       /\ intent_get(intent_, "search_mode", None) = "near_pois"
       /\ intent_.filters.poi_category # None

\* The same intent as the prompt of the completion service documents it, the
\* values inside filters under the names of the prompt.  The validation of
\* the reply keeps such an intent as it is: the type is valid, the query is
\* there, filters is an object without empty values.
CompletionShape(intent_) ==
    IF intent_.type = "property_compare"
    THEN [type |-> intent_.type, query |-> intent_.query,
          filters |-> [property_ids |-> intent_.property_ids]]
    ELSE IF intent_.type = "poi_search"
    THEN [type |-> intent_.type, query |-> intent_.query,
          filters |-> [property_id |-> intent_.property_id,
                       poi_category |-> intent_.category,
                       poi_radius |-> intent_.radius]]
    ELSE [type |-> intent_.type, query |-> intent_.query,
          filters |-> [poi_category |-> intent_.filters.poi_category,
                       poi_radius |-> intent_.filters.poi_radius,
                       search_mode |-> intent_.search_mode]]

\* C36: the dispatcher does for a property_compare, poi_search or near-POI
\* property_search intent in the shape of the completion service (the values
\* inside filters) what it does for the same intent in the shape of the rules
\* (the values at the top level): the same calls with the same result.
C36_BothShapesDispatchAlike ==
    (Dispatched /\ RuleShaped(intent))
    => dispatch(backend, CompletionShape(intent)) = last.found

\* ---------------------------------------------------------------------------
\* The session after a turn that ended with the generic error reply
\* ---------------------------------------------------------------------------

\* The message list the volatile tier holds under a key, empty when it holds none
VolatileMessages(mem, k) == IF MemHas(mem, k) THEN MemGet(mem, k).messages ELSE <<>>

\* The message lists of the active records of a pair
DurableLists(d, user_id, session_id) ==
    {d[i].data.messages : i \in ActiveRows(d, user_id, session_id)}

\* C37: after a turn that ended with the generic error reply the volatile tier
\* holds for the session the message list the turn loaded, which does not end
\* with a user message, and the active records of the session hold the lists
\* they held before the turn.
C37_FailedTurnLeavesTheSession ==
    [][(last'.op = "chat" /\ last'.kind = "apology")
       => LET k == cache_key(last'.user_id, last'.session_id)
              messages == VolatileMessages(memory_cache', k)
          IN /\ messages = last'.prior
             /\ messages # <<>> => messages[Len(messages)].role = "assistant"
             /\ DurableLists(db', last'.user_id, last'.session_id)
                    = DurableLists(db, last'.user_id, last'.session_id)]_vars

\* ---------------------------------------------------------------------------
\* Inactive records
\* ---------------------------------------------------------------------------

\* C38: a durable record that is inactive stays inactive and keeps its stored
\* messages through every later turn, save, get, clear and maintenance pass;
\* no record is removed from the table.
C38_InactiveStaysInactive ==
    [][/\ Len(db') >= Len(db)
       /\ \A i \in 1..Len(db) :
              ~db[i].is_active
                  => /\ ~db'[i].is_active
                     /\ db'[i].id = db[i].id
                     /\ db'[i].data.messages = db[i].data.messages]_vars

\* A turn of a session has completed and has made a new record while the
\* record that was marked inactive before holds other messages
C38_TurnAfterTheRecordWasMarked ==
    /\ last.op = "turn"
    /\ last.ok
    /\ \E i, j \in 1..Len(db) :
           /\ i < j
           /\ db[i].user_id = last.user_id /\ db[i].session_id = last.session_id
           /\ db[j].user_id = last.user_id /\ db[j].session_id = last.session_id
           /\ ~db[i].is_active
           /\ db[j].is_active
           /\ db[i].data.messages # db[j].data.messages

====
